---- MODULE Spec2Model ----
(***************************************************************************)
(* Model of the JD/CV matching pipeline: the chunk store (persist, fetch,  *)
(* reconstruct), CV ingestion with its retry loop, and the two-stage       *)
(* ranking request.                                                        *)
(*                                                                         *)
(* Text is a sequence of one-character strings; an optional value is       *)
(* either the string None (document ids) or a record with a `some' flag    *)
(* (texts, integers).                                                      *)
(***************************************************************************)
EXTENDS Integers, Sequences, FiniteSets, TLC

VARIABLES
    store,       \* the vector index: collection name -> set of points (payloads)
    lastRecon,   \* the last get_full_document_text_from_db call and its result
    lastAdd,     \* the last ingestion call and its result
    ing,         \* the CV upload tasks of routes.py: task -> its retry loop's state
    rank,        \* the ranking request being served by calculate_cv_ranking
    chunker,     \* the chunk_document_with_llm call being followed and what it did
    client,      \* the vector-db client call being followed and what it did
    batch        \* the batch upload being served by upload_multiple_cvs: its files and its response

vars == <<store, lastRecon, lastAdd, ing, rank, chunker, client, batch>>

-----------------------------------------------------------------------------
(* Bounds of the model *)

\* points the store of the model can hold
MaxPoints == 3
\* CV uploads running at once
MaxFiles == 3

-----------------------------------------------------------------------------
(* Values *)

None == "None"

JD_COLLECTION_NAME == "jd_collection"

CV_COLLECTION_NAME == "cv_collection"

Collections == {JD_COLLECTION_NAME, CV_COLLECTION_NAME}

\* document ids (uuid4 strings in the code)
DocIds == {"d1", "d2"}

\* marks a chunk object without a "weight" key
NoWeight == -1

Whitespace == {" ", "\n"}

\* python: not s.strip()
IsBlank(s) == \A i \in 1..Len(s) : s[i] \in Whitespace

\* python truthiness of a str
Truthy(s) == Len(s) > 0

NoText == [some |-> FALSE, val |-> <<>>]

SomeText(t) == [some |-> TRUE, val |-> t]

\* python: sep.join(parts)
RECURSIVE Join(_, _)
Join(parts, sep) ==
    IF Len(parts) = 0 THEN <<>>
    ELSE IF Len(parts) = 1 THEN parts[1]
    ELSE parts[1] \o sep \o Join(Tail(parts), sep)

\* python: [x for x in s if P(x)]
FilterSeq(s, P(_)) == SelectSeq(s, P)

\* python: sorted(s, key=K), a stable sort: position of s[i] in the result
SortedAsc(s, K(_)) ==
    LET n == Len(s)
        place(i) == Cardinality({j \in 1..n :
                       K(s[j]) < K(s[i]) \/ (K(s[j]) = K(s[i]) /\ j < i)}) + 1
    IN [p \in 1..n |-> s[CHOOSE i \in 1..n : place(i) = p]]

\* python: sorted(s, key=K, reverse=True): descending, equal keys keep their order
SortedDesc(s, K(_)) ==
    LET n == Len(s)
        place(i) == Cardinality({j \in 1..n :
                       K(s[j]) > K(s[i]) \/ (K(s[j]) = K(s[i]) /\ j < i)}) + 1
    IN [p \in 1..n |-> s[CHOOSE i \in 1..n : place(i) = p]]

\* all orders in which the store may hand back a set of points
RECURSIVE Perms(_)
Perms(S) ==
    IF S = {} THEN {<<>>}
    ELSE UNION {{<<x>> \o p : p \in Perms(S \ {x})} : x \in S}

-----------------------------------------------------------------------------
(* Chunker: src/llm/chunker.py *)

NoChunks == [some |-> FALSE, val |-> <<>>]

SomeChunks(cs) == [some |-> TRUE, val |-> cs]

\* isinstance(weight_val, int) and 1 <= weight_val <= 3
ValidWeight(w) == w \in 1..3

\* lines 95-114: the chunk kept for one valid chunk object
ChunkDataToAdd(obj) ==
    [og_content |-> obj.og_content,
     enriched_content |-> obj.enriched_content,
     weight |-> IF obj.weight # NoWeight /\ ValidWeight(obj.weight)
                THEN obj.weight ELSE NoWeight]

\* lines 97-99: a dict with str og_content and str enriched_content
IsChunkObject(obj) == obj.valid

DigitChars == <<"0", "1", "2", "3", "4", "5", "6", "7", "8", "9">>

IsDigit(c) == \E i \in 1..Len(DigitChars) : DigitChars[i] = c

DigitValue(c) == (CHOOSE i \in 1..Len(DigitChars) : DigitChars[i] = c) - 1

\* python: x.split('-')[-1], the text after the last '-' (all of x without one)
LastPart(x) ==
    LET dashes == {i \in 1..Len(x) : x[i] = "-"}
        from == IF dashes = {} THEN 1
                ELSE (CHOOSE i \in dashes : \A j \in dashes : j <= i) + 1
    IN SubSeq(x, from, Len(x))

\* python: int(t) does not raise ValueError; the texts of the model are made
\* of digits and letters
IsIntText(t) == Len(t) > 0 /\ \A i \in 1..Len(t) : IsDigit(t[i])

\* python: int(t) of a digit text
RECURSIVE IntOf(_)
IntOf(t) ==
    IF Len(t) = 0 THEN 0
    ELSE 10 * IntOf(SubSeq(t, 1, Len(t) - 1)) + DigitValue(t[Len(t)])

\* a sort key that compares the key suffixes as texts: a one-digit suffix sorts
\* as its digit followed by nothing, so "10" comes before "2"
KeyNumber_Lexical(e) ==
    LET t == LastPart(e.key)
    IN IF Len(t) = 1 THEN 11 * DigitValue(t[1])
       ELSE 11 * DigitValue(t[1]) + DigitValue(t[2]) + 1

\* line 90: the sort key int(x.split('-')[-1]) of an entry of the JSON object
KeyNumber(e) == IntOf(LastPart(e.key))

\* line 90: the sort key of every entry can be computed
KeysParse(entries) ==
    \A i \in 1..Len(entries) : IsIntText(LastPart(entries[i].key))

\* lines 84-123: the parsed JSON object to the list of chunks, or None. entries
\* lists the object's key/value pairs in the order the object holds them; a
\* key whose suffix is no integer raises ValueError at line 90, which the
\* handler at line 129 turns into None
ProcessedChunks(entries) ==
    LET sorted_chunk_keys == SortedAsc(entries, KeyNumber)
        kept == FilterSeq(sorted_chunk_keys, LAMBDA e : IsChunkObject(e.obj))
        processed_chunks == [i \in 1..Len(kept) |-> ChunkDataToAdd(kept[i].obj)]
    IN IF Len(entries) = 0 THEN NoChunks
       ELSE IF ~KeysParse(entries) THEN NoChunks
       ELSE IF Len(processed_chunks) = 0 THEN NoChunks
       ELSE SomeChunks(processed_chunks)

\* chunk_document_with_llm: content is what the caller supplies, reply is what
\* the LLM call does
chunk_document_with_llm(content, reply) ==
    IF ~content.b64 /\ ~content.raw THEN NoChunks
    ELSE IF reply.kind # "json" THEN NoChunks
    ELSE ProcessedChunks(reply.entries)

-----------------------------------------------------------------------------
(* Persist: src/vector_db/jd_repository.py, _process_chunks_for_vector_db *)

\* line 44: every chunk has a truthy enriched_content
AllChunksEnriched(chunks) ==
    \A i \in 1..Len(chunks) : Truthy(chunks[i].enriched_content)

\* line 66: the chunk_index stored for the chunk at (1-based) position p
ChunkIndexOf(p) == p - 1

\* line 69: total_chunks_for_doc stored on every point
TotalChunksOf(chunks) == Len(chunks)

\* a persist that stores whatever weight the chunk carries, in any collection
PayloadWeight_AsGiven(chunk, coll) == chunk.weight

\* lines 72-73: weight only in the JD collection, 1 when the chunk has none
PayloadWeight(chunk, coll) ==
    IF coll = JD_COLLECTION_NAME
    THEN (IF chunk.weight = NoWeight THEN 1 ELSE chunk.weight)
    ELSE NoWeight

\* lines 57-59: chunks whose enriched text is blank are skipped
KeptPositions(chunks) ==
    {p \in 1..Len(chunks) : ~IsBlank(chunks[p].enriched_content)}

\* lines 53-75: the points built for a chunk list. Every point gets a fresh
\* uuid4 id; the model names it by gen, the number of earlier upserts for the
\* same document, and the chunk's position
PointsFor(chunks, coll, docId, gen) ==
    LET kept == KeptPositions(chunks)
    IN {[gen |-> gen,
         original_doc_id |-> docId,
         chunk_index |-> ChunkIndexOf(p),
         enriched_text |-> chunks[p].enriched_content,
         og_text |-> chunks[p].og_content,
         total_chunks_for_doc |-> TotalChunksOf(chunks),
         weight |-> PayloadWeight(chunks[p], coll)] : p \in kept}

\* qdrant upsert of a batch of points with fresh ids
Upsert(st, coll, points) == [st EXCEPT ![coll] = @ \cup points]

\* the points of a document in a collection
DocPoints(st, coll, docId) == {pt \in st[coll] : pt.original_doc_id = docId}

\* number of upserts already stored for a document
Generation(st, coll, docId) ==
    Cardinality({pt.gen : pt \in DocPoints(st, coll, docId)})

\* _process_chunks_for_vector_db: the result and the store after it
ProcessChunks(st, optChunks, coll, docId, upsertOk) ==
    LET chunks == optChunks.val
        points == PointsFor(chunks, coll, docId, Generation(st, coll, docId))
        failed == [ok |-> FALSE, store |-> st]
    IN IF ~optChunks.some \/ Len(chunks) = 0 \/ ~AllChunksEnriched(chunks) THEN failed
       ELSE IF points = {} THEN failed
       ELSE IF ~upsertOk THEN failed
       ELSE [ok |-> TRUE, store |-> Upsert(st, coll, points)]

-----------------------------------------------------------------------------
(* Fetch and reconstruct: src/vector_db/vectordb_client.py *)

\* get_qdrantchunk_content: the store hands the points back in some order
FetchOrders(st, coll, docId) == Perms(DocPoints(st, coll, docId))

ChunkIndexKey(c) == c.chunk_index

\* line 335: a str og_text that is not blank
HasOgText(c) == ~IsBlank(c.og_text)

BlankLine == <<"\n", "\n">>

\* a reconstruction that joins the chunks in the order the store returned them
SortedChunks_Unsorted(chunks) == chunks

\* lines 320-328: the chunks in chunk_index order
SortedChunks(chunks) == SortedAsc(chunks, ChunkIndexKey)

\* lines 316-341 of get_full_document_text_from_db, on the fetched chunks
FullTextOf(chunks) ==
    LET sorted_chunks == SortedChunks(chunks)
        withText == FilterSeq(sorted_chunks, HasOgText)
        full_text_parts == [i \in 1..Len(withText) |-> withText[i].og_text]
    IN IF Len(chunks) = 0 THEN NoText
       ELSE IF Len(full_text_parts) = 0 THEN NoText
       ELSE SomeText(Join(full_text_parts, BlankLine))


-----------------------------------------------------------------------------
(* Ingestion entry points *)

\* add_cv_to_db (src/vector_db/cv_repository.py): meta is cv_metadata_with_links,
\* cv_chunks is what its chunk_document_with_llm call returns
add_cv_to_db(st, meta, cv_chunks, upsertOk) ==
    LET refused == [res |-> None, store |-> st]
        done == ProcessChunks(st, cv_chunks, CV_COLLECTION_NAME,
                              meta.original_doc_id, upsertOk)
    IN IF meta.original_doc_id = None THEN refused
       ELSE IF meta.associated_jd_id = None THEN refused
       ELSE IF ~cv_chunks.some THEN refused
       ELSE [res |-> IF done.ok THEN meta.original_doc_id ELSE None,
             store |-> done.store]

\* ids no document of the store carries: what uuid4 can return
UnusedDocIds(st) ==
    DocIds \ {pt.original_doc_id : pt \in st[JD_COLLECTION_NAME] \cup st[CV_COLLECTION_NAME]}

-----------------------------------------------------------------------------
(* Inputs of the store specification *)

ObjPlain == [valid |-> TRUE, og_content |-> <<"a">>, enriched_content |-> <<"x">>,
             weight |-> NoWeight]

ObjWeighted == [valid |-> TRUE, og_content |-> <<"b">>, enriched_content |-> <<"y">>,
                weight |-> 3]

ObjBlankOg == [valid |-> TRUE, og_content |-> <<>>, enriched_content |-> <<"x">>,
               weight |-> 4]

ObjBlankEnriched == [valid |-> TRUE, og_content |-> <<"a">>, enriched_content |-> <<" ">>,
                     weight |-> 2]

ObjEmptyEnriched == [valid |-> TRUE, og_content |-> <<"b">>, enriched_content |-> <<>>,
                     weight |-> 1]

ObjInvalid == [valid |-> FALSE, og_content |-> <<>>, enriched_content |-> <<>>,
               weight |-> NoWeight]

LlmChunkObjects ==
    {ObjPlain, ObjWeighted, ObjBlankOg, ObjBlankEnriched, ObjEmptyEnriched, ObjInvalid}

\* the key "chunk-<suffix>"
ChunkKey(suffix) == <<"c", "h", "u", "n", "k", "-">> \o suffix


JsonReply(objs, keys) ==
    [kind |-> "json",
     entries |-> [i \in 1..Len(objs) |-> [key |-> ChunkKey(keys[i]), obj |-> objs[i]]]]

\* what the chunking LLM call can do: raise, return unparseable text, or return
\* a JSON object; keys gives the suffix of each chunk-<n> key, in the order the
\* object lists them
LlmChunkReplies ==
    {[kind |-> "throws", entries |-> <<>>],
     [kind |-> "bad_json", entries |-> <<>>],
     JsonReply(<<>>, <<>>),
     JsonReply(<<ObjPlain>>, <<<<"1">>>>),
     JsonReply(<<ObjBlankOg>>, <<<<"1">>>>),
     JsonReply(<<ObjInvalid>>, <<<<"1">>>>),
     JsonReply(<<ObjPlain, ObjWeighted>>, <<<<"2">>, <<"1">>>>),
     JsonReply(<<ObjBlankOg, ObjWeighted>>, <<<<"1">>, <<"2">>>>),
     JsonReply(<<ObjBlankEnriched, ObjPlain>>, <<<<"1">>, <<"2">>>>),
     JsonReply(<<ObjPlain, ObjEmptyEnriched>>, <<<<"1">>, <<"2">>>>),
     JsonReply(<<ObjPlain, ObjInvalid, ObjWeighted>>, <<<<"1">>, <<"2">>, <<"3">>>>),
     JsonReply(<<ObjWeighted, ObjBlankEnriched, ObjPlain>>, <<<<"1">>, <<"2">>, <<"3">>>>)}

Contents == {[b64 |-> b, raw |-> r] : b \in BOOLEAN, r \in BOOLEAN}

\* everything the chunker can hand to an ingestion, over all contents and replies
ChunkOutcomes ==
    {chunk_document_with_llm(content, reply) :
        content \in Contents, reply \in LlmChunkReplies}

NoRecon == [called |-> FALSE, coll |-> JD_COLLECTION_NAME, doc |-> None,
            points |-> {}, fetched |-> FALSE, shuffled |-> FALSE, text |-> NoText]

NoAdd == [op |-> None, coll |-> JD_COLLECTION_NAME, doc |-> None, ok |-> FALSE,
          first |-> FALSE]

\* no ranking request
NoRanking == [kind |-> "pending", items |-> <<>>]

NoCalls == [get_jd_chunks |-> 0, search_cv_chunks |-> 0, get_full_jd_text |-> 0]

\* what the request's fetches of the JD came back with
NothingFetched == [jd_chunks |-> 0, jd_text |-> "pending"]

NoRank ==
    [pc |-> "idle", jd |-> None, pool |-> <<>>, top_n |-> [some |-> FALSE, val |-> 0],
     stagePool |-> <<>>, tasks |-> <<>>, result |-> NoRanking, calls |-> NoCalls,
     fetched |-> NothingFetched]

\* no batch upload is being served
NoBatch == [pc |-> "idle"]

\* no client call is being followed
NoClientCall == [pc |-> "idle"]

AllPoints(st) == st[JD_COLLECTION_NAME] \cup st[CV_COLLECTION_NAME]

\* the store of the model holds at most MaxPoints points
Fits(st) == Cardinality(AllPoints(st)) <= MaxPoints

-----------------------------------------------------------------------------
(* Chunker specification: one chunk_document_with_llm call, over what the  *)
(* caller supplies, whether the prompt file loads, and what the LLM does    *)

\* replies whose keys are out of order, sort differently as numbers and as
\* texts, or have a suffix that is no integer
ChunkerReplies ==
    LlmChunkReplies \cup
    {JsonReply(<<ObjPlain, ObjWeighted, ObjBlankOg>>, <<<<"2">>, <<"1", "0">>, <<"1">>>>),
     JsonReply(<<ObjPlain, ObjWeighted>>, <<<<"1", "0">>, <<"9">>>>),
     JsonReply(<<ObjInvalid, ObjPlain, ObjWeighted>>, <<<<"1">>, <<"1", "2">>, <<"3">>>>),
     JsonReply(<<ObjPlain, ObjWeighted>>, <<<<"a">>, <<"1">>>>),
     JsonReply(<<ObjInvalid, ObjWeighted>>, <<<<"1">>, <<"x">>>>),
     JsonReply(<<ObjPlain, ObjWeighted>>, <<<<"1">>, <<>>>>)}

NoChunkerCall ==
    [pc |-> "idle", content |-> [b64 |-> FALSE, raw |-> FALSE], prompt_ok |-> TRUE,
     reply |-> JsonReply(<<>>, <<>>), raised |-> FALSE, result |-> NoChunks]

\* chunk_document_with_llm as its caller sees it (lines 14-135): load_prompt
\* (line 39) runs before the try block of line 60, so its FileNotFoundError or
\* IOError leaves the function
ChunkDocumentCall(content, prompt_ok, reply) ==
    IF ~content.b64 /\ ~content.raw THEN [raised |-> FALSE, result |-> NoChunks]
    ELSE IF ~prompt_ok THEN [raised |-> TRUE, result |-> NoChunks]
    ELSE [raised |-> FALSE, result |-> chunk_document_with_llm(content, reply)]

ChunkerInit ==
    /\ batch = NoBatch
    /\ client = NoClientCall
    /\ store = [c \in Collections |-> {}]
    /\ lastRecon = NoRecon
    /\ lastAdd = NoAdd
    /\ ing = <<>>
    /\ rank = NoRank
    /\ \E content \in Contents, prompt_ok \in BOOLEAN, reply \in ChunkerReplies :
          chunker = [NoChunkerCall EXCEPT !.pc = "called", !.content = content,
                                          !.prompt_ok = prompt_ok, !.reply = reply]

ChunkDocument ==
    /\ chunker.pc = "called"
    /\ LET out == ChunkDocumentCall(chunker.content, chunker.prompt_ok, chunker.reply)
       IN chunker' = [chunker EXCEPT !.pc = "done", !.raised = out.raised,
                                     !.result = out.result]
    /\ UNCHANGED <<store, lastRecon, lastAdd, ing, rank, client, batch>>

ChunkerNext == ChunkDocument

SpecChunker == ChunkerInit /\ [][ChunkerNext]_vars /\ WF_vars(ChunkerNext)

\* the number the suffix of an entry's key stands for
SuffixNumber(e) == IntOf(LastPart(e.key))

\* the call got as far as reading the LLM's JSON object
ReadJsonObject ==
    /\ chunker.pc = "done"
    /\ chunker.content.b64 \/ chunker.content.raw
    /\ chunker.prompt_ok
    /\ chunker.reply.kind = "json"

\* the og_content values of the returned chunks, in order
ReturnedOgContents ==
    [i \in 1..Len(chunker.result.val) |-> chunker.result.val[i].og_content]

\* C13: the chunker orders its output by the numeric suffix of the chunk
\* keys, not lexically and not by insertion order: whenever it returns chunks,
\* the chunk of each valid entry stands at the place given by the number of
\* valid entries with a smaller numeric suffix.
C13_NumericKeyOrder ==
    (ReadJsonObject /\ chunker.result.some)
        => LET es == chunker.reply.entries
               valid == {k \in 1..Len(es) : es[k].obj.valid}
               before(k) == {j \in valid : SuffixNumber(es[j]) < SuffixNumber(es[k])}
           IN /\ Len(chunker.result.val) = Cardinality(valid)
              /\ \A k \in valid :
                    chunker.result.val[Cardinality(before(k)) + 1]
                        = ChunkDataToAdd(es[k].obj)

\* C13 witness: keys chunk-2, chunk-10, chunk-1 (in that order in the object)
\* came back as the chunks of chunk-1, chunk-2, chunk-10
C13_Witness ==
    /\ ReadJsonObject
    /\ [i \in 1..Len(chunker.reply.entries) |-> LastPart(chunker.reply.entries[i].key)]
            = <<<<"2">>, <<"1", "0">>, <<"1">>>>
    /\ ReturnedOgContents = <<ObjBlankOg.og_content, ObjPlain.og_content,
                               ObjWeighted.og_content>>

\* entries of the LLM's object that are valid chunks: a chunk object under a
\* key whose suffix is an integer
ValidEntries ==
    {k \in 1..Len(chunker.reply.entries) :
        /\ chunker.reply.entries[k].obj.valid
        /\ IsIntText(LastPart(chunker.reply.entries[k].key))}

\* C14: when the LLM's object holds entries that are not valid chunks (a bad
\* value, no og_content/enriched_content string, or an unparseable sort key)
\* and at least one valid chunk, the chunker drops only the invalid entries
\* and returns the valid chunks in order; it returns no result only when no
\* valid chunk remains.
C14_DropsOnlyInvalidEntries ==
    ReadJsonObject
        => LET es == chunker.reply.entries
               before(k) == {j \in ValidEntries : SuffixNumber(es[j]) < SuffixNumber(es[k])}
           IN /\ ~chunker.raised
              /\ chunker.result.some <=> ValidEntries # {}
              /\ chunker.result.some =>
                    /\ Len(chunker.result.val) = Cardinality(ValidEntries)
                    /\ \A k \in ValidEntries :
                          chunker.result.val[Cardinality(before(k)) + 1]
                              = ChunkDataToAdd(es[k].obj)

\* C15: chunk_document_with_llm never raises past its boundary: in every
\* failure case (no input content, the prompt load or the LLM call throws, the
\* JSON does not parse, no chunk survives validation) it returns None, and it
\* never returns an empty list.
C15_NeverRaisesNeverEmpty ==
    chunker.pc = "done"
        => /\ ~chunker.raised
           /\ chunker.result.some => Len(chunker.result.val) > 0
           /\ (\/ ~(chunker.content.b64 \/ chunker.content.raw)
               \/ ~chunker.prompt_ok
               \/ chunker.reply.kind # "json"
               \/ \A k \in 1..Len(chunker.reply.entries) :
                      ~chunker.reply.entries[k].obj.valid)
                 => ~chunker.result.some

-----------------------------------------------------------------------------
(* Embedding: src/vector_db/vectordb_client.py, get_embedding *)

\* the configured dimensionality (embedding_config["dimensions"], which is
\* also _vector_params.size), scaled down
Dimensions == 2

\* [0.0] * _vector_params.size
ZeroVector == [i \in 1..Dimensions |-> 0]

\* a vector of the given length that is not all zero
UnitVector(n) == [i \in 1..n |-> 1]

\* what get_embedding can be given: a text, or a value that is no string
EmbeddingTexts ==
    {[str |-> FALSE, val |-> <<>>]}
    \cup {[str |-> TRUE, val |-> t] : t \in {<<>>, <<" ">>, <<"x">>, <<" ", "x", " ">>}}

\* what the embedding endpoint does with a request: no answer within the
\* timeout, a refused connection, a status with a body; embeddings is the
\* list under "embeddings" when the body has a non-empty one
EndpointReplies ==
    {[kind |-> k, status |-> 0, has_embeddings |-> FALSE, vec |-> <<>>] :
        k \in {"timeout", "connection_error"}}
    \cup {[kind |-> "response", status |-> 500, has_embeddings |-> FALSE, vec |-> <<>>],
          [kind |-> "response", status |-> 200, has_embeddings |-> FALSE, vec |-> <<>>]}
    \cup {[kind |-> "response", status |-> 200, has_embeddings |-> TRUE, vec |-> UnitVector(n)] :
            n \in (Dimensions - 1)..(Dimensions + 1)}

\* an endpoint answer taken as it comes, whatever its length
EndpointVector_Unchecked(api_key, endpoint) ==
    IF api_key /\ endpoint.kind = "response" /\ endpoint.status = 200
       /\ endpoint.has_embeddings
    THEN [ok |-> TRUE, vec |-> endpoint.vec]
    ELSE [ok |-> FALSE, vec |-> <<>>]

\* lines 128-166: the vector the request yields, or an exception
EndpointVector(api_key, endpoint) ==
    IF ~api_key THEN [ok |-> FALSE, vec |-> <<>>]
    ELSE IF endpoint.kind # "response" THEN [ok |-> FALSE, vec |-> <<>>]
    ELSE IF endpoint.status # 200 THEN [ok |-> FALSE, vec |-> <<>>]
    ELSE IF ~endpoint.has_embeddings THEN [ok |-> FALSE, vec |-> <<>>]
    ELSE IF Len(endpoint.vec) # Dimensions THEN [ok |-> FALSE, vec |-> <<>>]
    ELSE [ok |-> TRUE, vec |-> endpoint.vec]

\* python: text.strip()
RECURSIVE Strip(_)
Strip(t) ==
    IF Len(t) = 0 THEN t
    ELSE IF t[1] \in Whitespace THEN Strip(Tail(t))
    ELSE IF t[Len(t)] \in Whitespace THEN Strip(SubSeq(t, 1, Len(t) - 1))
    ELSE t

\* get_embedding (lines 111-171): the whole body is inside try, and the
\* handler of Exception returns the zero vector. calls counts the requests
\* sent to the endpoint
get_embedding(text, api_key, endpoint) ==
    LET got == EndpointVector(api_key, endpoint)
    IN IF ~text.str THEN [raised |-> FALSE, vec |-> ZeroVector, calls |-> 0]
       ELSE IF Len(Strip(text.val)) = 0
            THEN [raised |-> FALSE, vec |-> ZeroVector, calls |-> 0]
       ELSE IF ~api_key THEN [raised |-> FALSE, vec |-> ZeroVector, calls |-> 0]
       ELSE [raised |-> FALSE, vec |-> IF got.ok THEN got.vec ELSE ZeroVector,
             calls |-> 1]

EmbeddingInit ==
    /\ batch = NoBatch
    /\ store = [c \in Collections |-> {}]
    /\ lastRecon = NoRecon
    /\ lastAdd = NoAdd
    /\ ing = <<>>
    /\ rank = NoRank
    /\ chunker = NoChunkerCall
    /\ \E text \in EmbeddingTexts, api_key \in BOOLEAN, endpoint \in EndpointReplies :
          client = [pc |-> "called", text |-> text, api_key |-> api_key,
                    endpoint |-> endpoint, raised |-> FALSE, vec |-> <<>>, calls |-> 0]

GetEmbedding ==
    /\ client.pc = "called"
    /\ LET out == get_embedding(client.text, client.api_key, client.endpoint)
       IN client' = [client EXCEPT !.pc = "done", !.raised = out.raised,
                                   !.vec = out.vec, !.calls = out.calls]
    /\ UNCHANGED <<store, lastRecon, lastAdd, ing, rank, chunker, batch>>

EmbeddingNext == GetEmbedding

SpecEmbedding == EmbeddingInit /\ [][EmbeddingNext]_vars /\ WF_vars(EmbeddingNext)

\* the text given is empty or whitespace only
BlankEmbeddingText ==
    client.text.str /\ \A i \in 1..Len(client.text.val) : client.text.val[i] \in Whitespace

\* a failure of the call: no text, no credential, no answer, a non-200 status,
\* a body without embeddings, or a vector of the wrong length
EmbeddingFailure ==
    \/ ~client.text.str
    \/ ~client.api_key
    \/ client.endpoint.kind # "response"
    \/ client.endpoint.status # 200
    \/ ~client.endpoint.has_embeddings
    \/ Len(client.endpoint.vec) # Dimensions

\* C16: get_embedding never raises: on every failure (missing credential,
\* non-200, malformed response, dimension mismatch, timeout) it returns the
\* all-zero vector of the configured dimensionality, and for an empty or
\* whitespace-only text it returns that zero vector without calling the
\* endpoint; otherwise it returns the endpoint's vector.
C16_EmbeddingNeverRaises ==
    client.pc = "done"
        => /\ ~client.raised
           /\ Len(client.vec) = Dimensions
           /\ EmbeddingFailure => client.vec = ZeroVector
           /\ BlankEmbeddingText => client.vec = ZeroVector /\ client.calls = 0
           /\ ~(EmbeddingFailure \/ BlankEmbeddingText)
                => client.vec = client.endpoint.vec /\ client.calls = 1

\* C16 witness: the endpoint answered 200 with a vector one too long and the
\* call returned the zero vector
C16_Witness ==
    /\ client.pc = "done"
    /\ ~BlankEmbeddingText
    /\ client.calls = 1
    /\ client.endpoint.has_embeddings
    /\ Len(client.endpoint.vec) = Dimensions + 1
    /\ client.vec = ZeroVector

-----------------------------------------------------------------------------
(* Persist specification: one _process_chunks_for_vector_db call on an     *)
(* empty store, over what the chunker can hand it                           *)

PersistInit ==
    /\ batch = NoBatch
    /\ store = [c \in Collections |-> {}]
    /\ lastRecon = NoRecon
    /\ lastAdd = NoAdd
    /\ ing = <<>>
    /\ rank = NoRank
    /\ chunker = NoChunkerCall
    /\ \E chunks \in ChunkOutcomes, coll \in Collections, doc \in DocIds,
          upsertOk \in BOOLEAN :
          client = [pc |-> "called", chunks |-> chunks, coll |-> coll, doc |-> doc,
                    upsertOk |-> upsertOk, ok |-> FALSE]

Persist ==
    /\ client.pc = "called"
    /\ LET done == ProcessChunks(store, client.chunks, client.coll, client.doc,
                                 client.upsertOk)
       IN /\ store' = done.store
          /\ client' = [client EXCEPT !.pc = "done", !.ok = done.ok]
    /\ UNCHANGED <<lastRecon, lastAdd, ing, rank, chunker, batch>>

PersistNext == Persist

SpecPersist == PersistInit /\ [][PersistNext]_vars /\ WF_vars(PersistNext)

\* positions of the chunks handed to the persist whose enriched text is not
\* empty (nor whitespace only)
NonEmptyChunks ==
    {p \in 1..Len(client.chunks.val) :
        \E i \in 1..Len(client.chunks.val[p].enriched_content) :
            client.chunks.val[p].enriched_content[i] \notin Whitespace}

\* C17: persist skips each chunk whose enriched text is empty and upserts the
\* others; the call fails only when zero points result or the upsert itself
\* fails, so a document with one empty chunk and one non-empty chunk is
\* persisted successfully.
C17_SkipsEmptyChunks ==
    client.pc = "done"
        => /\ client.ok <=> (NonEmptyChunks # {} /\ client.upsertOk)
           /\ client.ok =>
                 {<<pt.chunk_index, pt.enriched_text>> : pt \in store[client.coll]}
                    = {<<p - 1, client.chunks.val[p].enriched_content>> : p \in NonEmptyChunks}
           /\ ~client.ok => store[client.coll] = {}

-----------------------------------------------------------------------------
(* Store specification: ingestions and reconstructions in any order *)

StoreInit ==
    /\ batch = NoBatch
    /\ client = NoClientCall
    /\ chunker = NoChunkerCall
    /\ store = [c \in Collections |-> {}]
    /\ lastRecon = NoRecon
    /\ lastAdd = NoAdd
    /\ ing = <<>>
    /\ rank = NoRank

\* add_jd_to_db (src/vector_db/jd_repository.py lines 92-147)
AddJd ==
    \E jd_chunks \in ChunkOutcomes, upsertOk \in BOOLEAN,
       original_doc_id \in UnusedDocIds(store) :
        LET done == ProcessChunks(store, jd_chunks, JD_COLLECTION_NAME,
                                  original_doc_id, upsertOk)
        IN /\ Fits(done.store)
           /\ store' = done.store
           /\ lastAdd' = [op |-> "add_jd_to_db", coll |-> JD_COLLECTION_NAME,
                          doc |-> original_doc_id, ok |-> done.ok, first |-> TRUE]
           /\ lastRecon' = NoRecon
           /\ UNCHANGED <<ing, rank, chunker, client, batch>>

\* process_cv (src/services/cv_service.py lines 60-125) after its
\* associated_jd_id check; given is the original_doc_id the caller put in
\* cv_metadata, None for a generated one
ProcessCv ==
    \E cv_chunks \in ChunkOutcomes, upsertOk \in BOOLEAN, given \in DocIds \cup {None} :
      \E cv_id \in (IF given = None THEN UnusedDocIds(store) ELSE {given}) :
        LET meta == [original_doc_id |-> cv_id, associated_jd_id |-> "d1"]
            added == add_cv_to_db(store, meta, cv_chunks, upsertOk)
        IN /\ Fits(added.store)
           /\ store' = added.store
           /\ lastAdd' = [op |-> "process_cv", coll |-> CV_COLLECTION_NAME,
                          doc |-> cv_id, ok |-> added.res # None,
                          first |-> DocPoints(store, CV_COLLECTION_NAME, cv_id) = {}]
           /\ lastRecon' = NoRecon
           /\ UNCHANGED <<ing, rank, chunker, client, batch>>

\* process_cv called without an associated_jd_id (lines 83-84): an error
\* result, nothing stored
ProcessCvNoJd ==
    /\ lastAdd' = [op |-> "process_cv", coll |-> CV_COLLECTION_NAME,
                   doc |-> None, ok |-> FALSE, first |-> FALSE]
    /\ lastRecon' = NoRecon
    /\ UNCHANGED <<store, ing, rank, chunker, client, batch>>

\* get_full_document_text_from_db (src/vector_db/vectordb_client.py lines 298-341)
get_full_document_text_from_db(st, coll, docId, scrollOk, order) ==
    IF scrollOk THEN FullTextOf(order) ELSE NoText

Reconstruct ==
    \E coll \in Collections, docId \in DocIds, scrollOk \in BOOLEAN :
        \E order \in FetchOrders(store, coll, docId) :
            /\ lastRecon' = [called |-> TRUE, coll |-> coll, doc |-> docId,
                             points |-> DocPoints(store, coll, docId),
                             fetched |-> scrollOk,
                             shuffled |-> order # SortedChunks(order),
                             text |-> get_full_document_text_from_db(
                                          store, coll, docId, scrollOk, order)]
            /\ lastAdd' = NoAdd
            /\ UNCHANGED <<store, ing, rank, chunker, client, batch>>

StoreNext == AddJd \/ ProcessCv \/ ProcessCvNoJd \/ Reconstruct

SpecStore == StoreInit /\ [][StoreNext]_vars


-----------------------------------------------------------------------------
(* Claims on the store *)

NonDecreasingIndex(s) ==
    \A i, j \in 1..Len(s) : i < j => s[i].chunk_index <= s[j].chunk_index

OgTexts(s) == [i \in 1..Len(s) |-> s[i].og_text]

\* the text is the og_text of exactly the points of S, in chunk_index order,
\* joined by a blank line
IsJoinOf(text, S) ==
    /\ text.some
    /\ \E s \in Perms(S) : NonDecreasingIndex(s) /\ text.val = Join(OgTexts(s), BlankLine)

\* C1 as stated: reconstructing a persisted document (the fetch succeeding)
\* returns the og_text of all its persisted chunks, joined by a blank line in
\* ascending chunk_index order, whatever order the store returns them in.
C1_ReconstructJoinsAllChunks ==
    (lastRecon.called /\ lastRecon.fetched /\ lastRecon.points # {})
        => IsJoinOf(lastRecon.text, lastRecon.points)

\* C1 amended: reconstructing a persisted document (the fetch succeeding)
\* returns the og_text of its persisted chunks whose og_text is not blank,
\* joined by a blank line in ascending chunk_index order, whatever order the
\* store returns them in; it returns no text when every og_text is blank.
C1_ReconstructJoinsNonBlankChunks ==
    (lastRecon.called /\ lastRecon.fetched /\ lastRecon.points # {})
        => LET nonBlank == {pt \in lastRecon.points : ~IsBlank(pt.og_text)}
           IN IF nonBlank = {} THEN lastRecon.text = NoText
              ELSE IsJoinOf(lastRecon.text, nonBlank)

\* C1 witness: a document with two non-blank chunks, handed back by the store
\* out of chunk_index order, was reconstructed
C1_Witness ==
    /\ lastRecon.called /\ lastRecon.fetched /\ lastRecon.shuffled
    /\ lastRecon.text.some
    /\ Cardinality({pt \in lastRecon.points : ~IsBlank(pt.og_text)}) >= 2

\* C9: no two chunks stored under the same original_doc_id have the same
\* chunk_index, after any sequence of ingestions.
C9_ChunkIndexUniquePerDoc ==
    \A coll \in Collections : \A p, q \in store[coll] :
        (p.original_doc_id = q.original_doc_id /\ p.chunk_index = q.chunk_index) => p = q

\* C10: after a successful persist of a new document its chunk_index values are
\* exactly 0..total_chunks_for_doc-1 and total_chunks_for_doc is the number of
\* chunks stored for it.
C10_IndexesContiguous ==
    (lastAdd.ok /\ lastAdd.first)
        => LET pts == DocPoints(store, lastAdd.coll, lastAdd.doc)
           IN \A pt \in pts :
                /\ pt.total_chunks_for_doc = Cardinality(pts)
                /\ {q.chunk_index : q \in pts} = 0..(pt.total_chunks_for_doc - 1)

\* the weight the LLM gave the chunk a stored point came from: the chunk
\* objects of the model differ in their texts, so a point names its object
LlmWeightOf(pt) ==
    LET obj == CHOOSE o \in LlmChunkObjects :
                   /\ o.valid
                   /\ o.og_content = pt.og_text
                   /\ o.enriched_content = pt.enriched_text
    IN obj.weight

\* C12: every chunk persisted in the JD collection through the chunker and the
\* persist has a weight in {1,2,3}, which is 1 whenever the LLM's chunk had no
\* weight or one outside 1..3; no chunk persisted in the CV collection has a
\* weight field.
C12_PersistedWeights ==
    /\ \A pt \in store[JD_COLLECTION_NAME] :
          /\ pt.weight \in 1..3
          /\ ~ValidWeight(LlmWeightOf(pt)) => pt.weight = 1
          /\ ValidWeight(LlmWeightOf(pt)) => pt.weight = LlmWeightOf(pt)
    /\ \A pt \in store[CV_COLLECTION_NAME] : pt.weight = NoWeight

\* C12 witness: the JD collection holds a chunk the LLM gave weight 4 and the
\* CV collection holds a chunk the LLM gave weight 3
C12_Witness ==
    /\ \E pt \in store[JD_COLLECTION_NAME] : LlmWeightOf(pt) = 4 /\ pt.weight = 1
    /\ \E pt \in store[CV_COLLECTION_NAME] : LlmWeightOf(pt) = 3 /\ pt.weight = NoWeight


-----------------------------------------------------------------------------
(* CV upload with retry: src/routes.py, process_single_cv_async (the tasks  *)
(* of a batch upload) and s3_upload_cv                                      *)

max_attempts == 2

\* ids generated for the uploads (uuid4), one per task
UploadIds == <<"u1", "u2", "u3", "u4", "u5">>

UploadKinds == {"batch", "s3"}

\* what parse_cv_with_llm hands back as structured_data: the parsed CV, a dict
\* with an "error" key, or nothing
ParseOutcomes == {"parsed", "error_dict", "none"}

NoResult == [returned |-> FALSE, success |-> FALSE, cv_id |-> None, error |-> None]

NewTask(kind, cv_id) ==
    [kind |-> kind, cv_id |-> cv_id, pc |-> "attempt", attempt |-> 0,
     attemptsMade |-> 0, sleeps |-> 0, dbWrites |-> 0, lastError |-> None,
     lastEnvOk |-> FALSE, result |-> NoResult]

\* a cv_metadata_with_links dict that names the JD the CV belongs to
RoutesCvMetadata_WithJd(cv_id) == [original_doc_id |-> cv_id, associated_jd_id |-> "d1"]

\* the cv_metadata_with_links dict both handlers build (routes.py lines 186-193
\* and 361-366): it has no associated_jd_id key, so .get returns None
RoutesCvMetadata(cv_id) == [original_doc_id |-> cv_id, associated_jd_id |-> None]

\* attempt == max_attempts - 1
IsLastAttempt(attempt) == attempt = max_attempts - 1

\* lines 369, 395 (196, 212): how one attempt ends. With the metadata of
\* RoutesCvMetadata add_cv_to_db returns before its first await, and
\* parse_cv_with_llm catches its own exceptions, so no attempt raises into the
\* handlers' except branch
AttemptOutcome(db_add_result_cv_id, parse) ==
    IF db_add_result_cv_id = None THEN "Failed to add CV to vector DB."
    ELSE IF parse # "parsed" THEN "LLM Parsing Error"
    ELSE "success"

\* the cv_id of a failure result: process_single_cv_async returns it only when
\* the DB write of the last attempt succeeded (lines 373-379, 400-406);
\* s3_upload_cv always returns the generated id (lines 235-241)
FailureCvId(kind, cv_id, outcome) ==
    IF kind = "s3" THEN cv_id
    ELSE IF outcome = "LLM Parsing Error" THEN cv_id ELSE None

\* a loop that never takes the last-attempt return and sleeps again instead
AfterAttempt_AlwaysSleeps(task, outcome) ==
    LET made == [task EXCEPT !.attemptsMade = @ + 1, !.lastError = outcome]
    IN IF outcome = "success"
       THEN [made EXCEPT !.pc = "done",
                         !.result = [returned |-> TRUE, success |-> TRUE,
                                     cv_id |-> task.cv_id, error |-> None]]
       ELSE [made EXCEPT !.pc = "sleep"]

\* the task after the body of one loop iteration
AfterAttempt(task, outcome) ==
    LET made == [task EXCEPT !.attemptsMade = @ + 1,
                             !.dbWrites = @ + (IF outcome = "Failed to add CV to vector DB."
                                               THEN 0 ELSE 1),
                             !.lastError = outcome]
    IN IF outcome = "success"
       THEN [made EXCEPT !.pc = "done",
                         !.result = [returned |-> TRUE, success |-> TRUE,
                                     cv_id |-> task.cv_id, error |-> None]]
       ELSE IF IsLastAttempt(task.attempt)
       THEN [made EXCEPT !.pc = "done",
                         !.result = [returned |-> TRUE, success |-> FALSE,
                                     cv_id |-> FailureCvId(task.kind, task.cv_id, outcome),
                                     error |-> outcome]]
       ELSE [made EXCEPT !.pc = "sleep"]

\* after asyncio.sleep the for loop goes on; past range(max_attempts) the
\* handler returns its fallback result (lines 434-441, 244-245)
AfterSleep(task) ==
    LET next == [task EXCEPT !.sleeps = @ + 1, !.attempt = @ + 1]
    IN IF task.attempt + 1 < max_attempts
       THEN [next EXCEPT !.pc = "attempt"]
       ELSE [next EXCEPT !.pc = "done",
                         !.result = [returned |-> TRUE, success |-> FALSE,
                                     cv_id |-> IF task.kind = "s3" THEN task.cv_id ELSE None,
                                     error |-> "All attempts failed"]]

\* the chunker, the upsert and the CV parser all did their part in an attempt:
\* chunks with non-blank enriched text came back, the upsert would go through
\* and the parser returned a parsed CV
EverythingSucceeds(cv_chunks, upsertOk, parse) ==
    /\ cv_chunks.some
    /\ AllChunksEnriched(cv_chunks.val)
    /\ KeptPositions(cv_chunks.val) # {}
    /\ upsertOk
    /\ parse = "parsed"

IngestInit ==
    /\ batch = NoBatch
    /\ client = NoClientCall
    /\ chunker = NoChunkerCall
    /\ store = [c \in Collections |-> {}]
    /\ lastRecon = NoRecon
    /\ lastAdd = NoAdd
    /\ rank = NoRank
    /\ \E n \in 1..MaxFiles : \E kinds \in [1..n -> UploadKinds] :
          ing = [t \in 1..n |-> NewTask(kinds[t], UploadIds[t])]

\* one iteration of the retry loop: add_cv_to_db, then parse_cv_with_llm when
\* the CV was stored
AttemptStep(t) ==
    /\ ing[t].pc = "attempt"
    /\ \E cv_chunks \in ChunkOutcomes, upsertOk \in BOOLEAN, parse \in ParseOutcomes :
          LET added == add_cv_to_db(store, RoutesCvMetadata(ing[t].cv_id),
                                    cv_chunks, upsertOk)
          IN /\ store' = added.store
             /\ ing' = [ing EXCEPT ![t] =
                            [AfterAttempt(@, AttemptOutcome(added.res, parse))
                                EXCEPT !.lastEnvOk = EverythingSucceeds(cv_chunks, upsertOk, parse)]]
    /\ UNCHANGED <<lastRecon, lastAdd, rank, chunker, client, batch>>

\* await asyncio.sleep(retry_delay_seconds) returns
SleepStep(t) ==
    /\ ing[t].pc = "sleep"
    /\ ing' = [ing EXCEPT ![t] = AfterSleep(@)]
    /\ UNCHANGED <<store, lastRecon, lastAdd, rank, chunker, client, batch>>

Attempt == \E t \in DOMAIN ing : AttemptStep(t)

Sleep == \E t \in DOMAIN ing : SleepStep(t)

IngestNext == Attempt \/ Sleep

\* the event loop runs every task that can go on
SpecIngest == IngestInit /\ [][IngestNext]_vars /\ WF_vars(IngestNext)

AllUploadsDone == \A t \in DOMAIN ing : ing[t].pc = "done"

-----------------------------------------------------------------------------
(* Batch upload: src/routes.py, upload_multiple_cvs (lines 443-545) *)

\* what the handler finds for each uploaded file: content it can process, a
\* content error (lines 466-473), or no filename (lines 459-461)
FileKinds == {"ok", "error", "no_filename"}

\* lines 458-479: the files that get an entry in file_data_list, in order
FileDataList(files) ==
    LET kept == {i \in 1..Len(files) : files[i] # "no_filename"}
        nth(k) == CHOOSE i \in kept : Cardinality({j \in kept : j < i}) = k - 1
    IN [k \in 1..Cardinality(kept) |-> nth(k)]

\* lines 481-495: the coroutine created for one entry of file_data_list
BatchTask(fileKind, cv_id) ==
    IF fileKind = "error"
    THEN [NewTask("batch", None) EXCEPT !.pc = "error_result"]
    ELSE NewTask("batch", cv_id)

\* a task has finished: it returned a result or an exception left it
TaskFinished(task) == task.pc \in {"done", "raised"}

\* a gather that returns as soon as one task raises (return_exceptions unset)
GatherReturns_OnFirstException(tasks) ==
    \/ \A t \in DOMAIN tasks : TaskFinished(tasks[t])
    \/ \E t \in DOMAIN tasks : tasks[t].pc = "raised"

\* line 499: asyncio.gather(*tasks, return_exceptions=True) returns when
\* every task has finished
GatherReturns(tasks) == \A t \in DOMAIN tasks : TaskFinished(tasks[t])

\* lines 506-525: the entry of final_results for one gathered result
FinalResult(file, task) ==
    IF task.pc = "raised"
    THEN [file |-> file, success |-> FALSE, cv_id |-> None,
          error |-> "Processing exception"]
    ELSE [file |-> file, success |-> task.result.success, cv_id |-> task.result.cv_id,
          error |-> task.result.error]

\* lines 501-537: the response built from the gathered results
BatchResponse(files, file_data_list, tasks) ==
    LET final_results == [i \in 1..Len(tasks) |-> FinalResult(file_data_list[i], tasks[i])]
    IN [total_files |-> Len(files),
        successful_uploads |-> Cardinality({i \in 1..Len(tasks) :
                                    tasks[i].pc = "done" /\ tasks[i].result.success}),
        failed_uploads |-> Cardinality({i \in 1..Len(tasks) :
                                    ~(tasks[i].pc = "done" /\ tasks[i].result.success)}),
        results |-> final_results]

NoResponse == [total_files |-> 0, successful_uploads |-> 0, failed_uploads |-> 0,
               results |-> <<>>]

BatchInit ==
    /\ client = NoClientCall
    /\ chunker = NoChunkerCall
    /\ store = [c \in Collections |-> {}]
    /\ lastRecon = NoRecon
    /\ lastAdd = NoAdd
    /\ rank = NoRank
    /\ \E n \in 1..MaxFiles : \E files \in [1..n -> FileKinds] :
          LET file_data_list == FileDataList(files)
          IN /\ batch = [pc |-> "gather", files |-> files,
                         file_data_list |-> file_data_list, response |-> NoResponse]
             /\ ing = [t \in 1..Len(file_data_list) |->
                          BatchTask(files[file_data_list[t]], UploadIds[file_data_list[t]])]

\* lines 485-493: create_error_result returns its failure result
ErrorResultStep(t) ==
    /\ ing[t].pc = "error_result"
    /\ ing' = [ing EXCEPT ![t].pc = "done",
                          ![t].result = [returned |-> TRUE, success |-> FALSE,
                                         cv_id |-> None, error |-> "file error"]]
    /\ UNCHANGED <<store, lastRecon, lastAdd, rank, chunker, client, batch>>

\* an exception that is not caught inside the task leaves its coroutine; the
\* retry loop's own handler (lines 420-432) catches what the attempts raise,
\* so this is an exception raised outside it
RaiseStep(t) ==
    /\ ing[t].pc = "attempt"
    /\ ing[t].attempt = 0
    /\ ing' = [ing EXCEPT ![t].pc = "raised"]
    /\ UNCHANGED <<store, lastRecon, lastAdd, rank, chunker, client, batch>>

ErrorResult == \E t \in DOMAIN ing : ErrorResultStep(t)

Raise == \E t \in DOMAIN ing : RaiseStep(t)

\* lines 499-537: gather returns and the response is built
Respond ==
    /\ batch.pc = "gather"
    /\ GatherReturns(ing)
    /\ batch' = [batch EXCEPT !.pc = "responded",
                              !.response = BatchResponse(batch.files, batch.file_data_list,
                                                         ing)]
    /\ UNCHANGED <<store, lastRecon, lastAdd, ing, rank, chunker, client>>

BatchNext == Attempt \/ Sleep \/ ErrorResult \/ Raise \/ Respond

SpecBatch == BatchInit /\ [][BatchNext]_vars /\ WF_vars(BatchNext)

\* the steps of one task
TaskStep(t) == AttemptStep(t) \/ SleepStep(t) \/ ErrorResultStep(t)

\* C21: in a batch upload the per-file ingestion tasks are independent: a
\* failure or exception in one task never aborts a sibling (an unfinished task
\* can always take its next step, and the response waits for all of them),
\* each processed file gets exactly one result at its own position in
\* submission order, and successful_uploads + failed_uploads is the number of
\* results.
C21_BatchTasksIndependent ==
    /\ \A t \in DOMAIN ing : ~TaskFinished(ing[t]) => ENABLED TaskStep(t)
    /\ batch.pc = "responded"
        => LET r == batch.response
           IN /\ \A t \in DOMAIN ing : TaskFinished(ing[t])
              /\ Len(r.results) = Cardinality({i \in 1..Len(batch.files) :
                                        batch.files[i] # "no_filename"})
              /\ \A i \in 1..Len(r.results) :
                    /\ batch.files[r.results[i].file] # "no_filename"
                    /\ \A j \in 1..Len(r.results) :
                          i < j => r.results[i].file < r.results[j].file
                    /\ ing[i].pc = "done"
                          => /\ r.results[i].success = ing[i].result.success
                             /\ r.results[i].error = ing[i].result.error
                    /\ ing[i].pc = "raised" => ~r.results[i].success
              /\ r.successful_uploads + r.failed_uploads = Len(r.results)
              /\ r.failed_uploads = Cardinality({i \in 1..Len(r.results) :
                                        ~r.results[i].success})
    /\ batch.pc = "responded" \/ ENABLED BatchNext

\* C21 witness: a batch of three files answered with three results in order,
\* one task having failed after its retries, one having raised, one file
\* having had a content error
C21_Witness ==
    /\ batch.pc = "responded"
    /\ Len(batch.response.results) = 3
    /\ \E i, j, k \in 1..3 :
          /\ ing[i].pc = "raised"
          /\ ing[j].pc = "done" /\ ing[j].attemptsMade = 2
          /\ batch.files[k] = "error" /\ ing[k].pc = "done"
    /\ batch.response.failed_uploads = 3

-----------------------------------------------------------------------------
(* Claims on the retry loop *)

\* In an upload through routes.py add_cv_to_db never stores anything: the
\* metadata has no associated_jd_id. No attempt has a successful DB write.
RoutesUploadNeverStores ==
    /\ store[CV_COLLECTION_NAME] = {}
    /\ \A t \in DOMAIN ing : ing[t].dbWrites = 0

\* C8: CV ingestion makes at most two attempts, sleeps only between a failed
\* attempt and the next one, stops at the first successful attempt, and always
\* ends with a structured success/failure result.
C8_BoundedRetry ==
    /\ \A t \in DOMAIN ing :
        LET task == ing[t]
        IN /\ task.attemptsMade <= 2
           /\ task.pc = "sleep" => (task.lastError # "success" /\ task.attemptsMade < 2)
           /\ task.pc = "attempt" => task.sleeps = task.attemptsMade
           /\ task.pc = "done" =>
                /\ task.result.returned
                /\ task.sleeps = task.attemptsMade - 1
                /\ task.result.success <=> task.lastError = "success"
                /\ task.result.success => task.result.cv_id = task.cv_id
                /\ ~task.result.success => task.result.error = task.lastError
    /\ AllUploadsDone \/ ENABLED IngestNext

\* C11: a CV upload through the batch or the S3 handler in which chunking,
\* embedding, upsert and LLM parse all succeed returns success with the CV's
\* document id, and chunks with that id are then in the CV collection.
C11_UploadSucceeds ==
    \A t \in DOMAIN ing :
        (ing[t].pc = "done" /\ ing[t].lastEnvOk)
        => /\ ing[t].result.success
           /\ ing[t].result.cv_id = ing[t].cv_id
           /\ DocPoints(store, CV_COLLECTION_NAME, ing[t].cv_id) # {}

\* C8 witness: an upload that failed twice, slept once in between and returned
\* a failure result
C8_Witness ==
    \E t \in DOMAIN ing :
        /\ ing[t].pc = "done" /\ ing[t].attemptsMade = 2 /\ ing[t].sleeps = 1
        /\ ing[t].result.returned /\ ~ing[t].result.success


-----------------------------------------------------------------------------
(* Ranking: src/src/services/ranking_service.py, calculate_cv_ranking.      *)
(* Scores are integers: a similarity s stands for s/100, a stage-1 score c  *)
(* for c/10000 and an LLM ranking score r for r/100.                         *)

TOP_K_CV_CHUNKS_PER_JD_CHUNK == 15

\* num_llm_candidates when top_n is not positive (line 229)
DefaultLlmCandidates == 5

\* initial_vector_score 0.5 of the bypass path (line 138)
NeutralVectorScore == 5000

\* longest candidate list of a ranking request
MaxPool == 3

JdIds == {"j1", "j2", "j3"}

\* the CVs of the store; the first two make up the short candidate lists
CvIds == {"c1", "c2"}

AllCvIds == CvIds \cup {"c3", "c4", "c5"}

\* a ranking batch of five candidates
FiveCandidates == <<"c1", "c2", "c3", "c4", "c5">>

NoTopN == [some |-> FALSE, val |-> 0]

TopN(n) == [some |-> TRUE, val |-> n]

TopNs == {NoTopN} \cup {TopN(n) : n \in (0 - 1)..MaxPool}

\* the candidate lists of the requests; a cv_id may be listed more than once
Pools == UNION {[1..n -> CvIds] : n \in 0..MaxPool}

\* the requests: every short list with every top_n, and the batch of five
\* ranked in full or narrowed
RankRequests ==
    (JdIds \X Pools \X TopNs) \cup (JdIds \X {FiveCandidates} \X {NoTopN, TopN(MaxPool)})

\* a store filled by the ingestion functions: JD j1 with a weight-3 and an
\* unweighted chunk, JD j2 whose only chunk has an empty og_text, no JD j3;
\* CVs c1 to c5 with text
RankedStore ==
    LET emptyStore == [c \in Collections |-> {}]
        put(st, coll, docId, objs) ==
            ProcessChunks(st,
                          chunk_document_with_llm([b64 |-> FALSE, raw |-> TRUE],
                                                  JsonReply(objs, [i \in 1..Len(objs) |-> <<DigitChars[i + 1]>>])),
                          coll, docId, TRUE).store
        s1 == put(emptyStore, JD_COLLECTION_NAME, "j1", <<ObjWeighted, ObjPlain>>)
        s2 == put(s1, JD_COLLECTION_NAME, "j2", <<ObjBlankOg>>)
        s3 == put(s2, CV_COLLECTION_NAME, "c1", <<ObjPlain>>)
        s4 == put(s3, CV_COLLECTION_NAME, "c2", <<ObjWeighted>>)
        s5 == put(s4, CV_COLLECTION_NAME, "c3", <<ObjPlain>>)
        s6 == put(s5, CV_COLLECTION_NAME, "c4", <<ObjPlain>>)
    IN put(s6, CV_COLLECTION_NAME, "c5", <<ObjWeighted>>)

\* cosine similarity of a query text and a stored CV chunk, times 100; the
\* embeddings fix it, the model draws it from a few tables
Queries == {<<"x">>, <<"y">>}

SimHighWeight ==
    [qc \in Queries \X AllCvIds |->
        IF qc = <<(<<"y">>), "c1">> THEN 90
        ELSE IF qc = <<(<<"x">>), "c2">> THEN 99 ELSE 10]

SimAllEqual == [qc \in Queries \X AllCvIds |-> 90]

SimLastBest ==
    [qc \in Queries \X AllCvIds |-> IF qc[2] = "c3" THEN 99 ELSE IF qc[2] = "c2" THEN 90 ELSE 10]

SimTables == {SimHighWeight, SimAllEqual, SimLastBest}

\* list(dict.keys()) of a dict built from the list: the first occurrence of
\* each id, in order
DistinctIds(ids) ==
    LET first == {i \in 1..Len(ids) : \A j \in 1..(i - 1) : ids[j] # ids[i]}
        nth(k) == CHOOSE i \in first : Cardinality({j \in first : j < i}) = k - 1
    IN [k \in 1..Cardinality(first) |-> ids[nth(k)]]

SeqRange(s) == {s[i] : i \in 1..Len(s)}

RECURSIVE SumSeq(_)
SumSeq(s) == IF Len(s) = 0 THEN 0 ELSE s[1] + SumSeq(Tail(s))

MaxOf(S) == CHOOSE m \in S : \A x \in S : x <= m

Min2(a, b) == IF a < b THEN a ELSE b

\* get_qdrantchunk_content: the document's payloads in the order the store
\* returns them, or [] when the scroll raises
\* a fetch that stops after the first point the store hands back
get_qdrantchunk_content_FirstHitOnly(scrollOk, order) ==
    IF scrollOk THEN SubSeq(order, 1, Min2(1, Len(order))) ELSE <<>>

get_qdrantchunk_content(scrollOk, order) == IF scrollOk THEN order ELSE <<>>

ScoreKey(hit) == hit._score

\* filter_by_doc_ids: not given (None), or a list of document ids
NoFilter == [given |-> FALSE, ids |-> <<>>]

DocIdFilter(ids) == [given |-> TRUE, ids |-> ids]

\* lines 201-216: the filter is built only for a non-empty list; without one
\* the search runs over the whole collection
SearchFilterApplies(filter_by_doc_ids) ==
    filter_by_doc_ids.given /\ Len(filter_by_doc_ids.ids) > 0

\* search_similar_chunks (lines 174-235): the top_k most similar points of the
\* collection that pass the filter, each payload with its _score; [] for a
\* blank query or when the search raises
search_similar_chunks(st, sim, query_text, collection_to_search, top_k, filter_by_doc_ids, searchOk) ==
    LET matching == IF SearchFilterApplies(filter_by_doc_ids)
                    THEN {pt \in st[collection_to_search] :
                             pt.original_doc_id \in SeqRange(filter_by_doc_ids.ids)}
                    ELSE st[collection_to_search]
        listed == CHOOSE s \in Perms(matching) : TRUE
        hits == SortedDesc([i \in 1..Len(listed) |->
                               [original_doc_id |-> listed[i].original_doc_id,
                                chunk_index |-> listed[i].chunk_index,
                                _score |-> sim[<<query_text, listed[i].original_doc_id>>]]],
                           ScoreKey)
    IN IF IsBlank(query_text) THEN <<>>
       ELSE IF ~searchOk THEN <<>>
       ELSE SubSeq(hits, 1, Min2(top_k, Len(hits)))

\* search_cv_chunks (src/vector_db/cv_repository.py lines 76-88)
search_cv_chunks(st, sim, query_text, top_k, filter_by_doc_ids, searchOk) ==
    search_similar_chunks(st, sim, query_text, CV_COLLECTION_NAME, top_k,
                          filter_by_doc_ids, searchOk)

\* lines 168-170
JdChunkWeight(jd_chunk) == IF jd_chunk.weight \in 1..3 THEN jd_chunk.weight ELSE 1

\* line 191
WeightedContribution(match_score, jd_chunk_weight) == (match_score * match_score) * jd_chunk_weight

\* lines 166-207: the weighted contributions of all hits of all JD chunks
RECURSIVE Contributions(_, _, _, _, _)
Contributions(st, sim, jd_chunks, active_cv_ids, searchOk) ==
    IF Len(jd_chunks) = 0 THEN <<>>
    ELSE LET jd_chunk == jd_chunks[1]
             matches == IF IsBlank(jd_chunk.enriched_text) THEN <<>>
                        ELSE search_cv_chunks(st, sim, jd_chunk.enriched_text,
                                              TOP_K_CV_CHUNKS_PER_JD_CHUNK,
                                              DocIdFilter(active_cv_ids), searchOk[1])
             here == [i \in 1..Len(matches) |->
                         [cv_id |-> matches[i].original_doc_id,
                          contribution |-> WeightedContribution(matches[i]._score,
                                                                JdChunkWeight(jd_chunk))]]
         IN here \o Contributions(st, sim, Tail(jd_chunks), active_cv_ids, Tail(searchOk))

\* a candidate as the stages hand it on; `scored' says whether the dict has
\* the llm_ranking_score key
Candidate(cv_id, initial_vector_score, raw_total_score, match_count) ==
    [cv_id |-> cv_id, initial_vector_score |-> initial_vector_score,
     raw_total_score |-> raw_total_score, match_count |-> match_count,
     scored |-> FALSE, llm_ranking_score |-> 0, llm_skills_evaluation |-> "absent"]

\* lines 133-142
BypassCandidates(active_session_cvs) ==
    [i \in 1..Len(active_session_cvs) |-> Candidate(active_session_cvs[i], NeutralVectorScore, 0, 0)]


\* the aggregator entry per CV: max_weighted_contribution starts at 0.0 and
\* takes each greater contribution (lines 195-196)
\* a stage-1 score that adds the contributions up
MaxWeightedContribution_Sum(contribs) == SumSeq(contribs)

\* lines 194-195: the largest contribution, 0.0 without a hit
MaxWeightedContribution(contribs) == MaxOf(SeqRange(contribs) \cup {0})

InitialVectorScore(c) == c.initial_vector_score

\* lines 156-226: one candidate per distinct cv_id, sorted by its best
\* contribution
InitialRankedCvs(active_cv_ids, contributions) ==
    LET of(cv_id) == LET mine == SelectSeq(contributions, LAMBDA m : m.cv_id = cv_id)
                     IN [i \in 1..Len(mine) |-> mine[i].contribution]
        initial_ranked_cvs ==
            [i \in 1..Len(active_cv_ids) |->
                Candidate(active_cv_ids[i],
                          MaxWeightedContribution(of(active_cv_ids[i])),
                          SumSeq(of(active_cv_ids[i])),
                          Len(of(active_cv_ids[i])))]
    IN SortedDesc(initial_ranked_cvs, InitialVectorScore)

\* a candidate count that takes top_n as it is
NumLlmCandidates_AsGiven(top_n) == top_n.val

\* line 229
NumLlmCandidates(top_n) == IF top_n.some /\ top_n.val > 0 THEN top_n.val ELSE DefaultLlmCandidates

\* line 129
SkipsVectorStage(top_n, total_cvs) == ~top_n.some \/ top_n.val >= total_cvs


Take(s, n) == SubSeq(s, 1, Min2(n, Len(s)))

ReturnedList(items) == [kind |-> "list", items |-> items]

ReturnedNone == [kind |-> "None", items |-> <<>>]

\* lines 112-234: the pool sizing decision and, when the pool is to be
\* narrowed, the vector prefilter
StageOne(st, request, scrollOk, order, sim, searchOk) ==
    LET active_session_cvs == request.pool
        active_cv_ids == DistinctIds(active_session_cvs)
        total_cvs == Len(active_cv_ids)
        jd_chunks == get_qdrantchunk_content(scrollOk, order)
        searched == Cardinality({i \in 1..Len(jd_chunks) : ~IsBlank(jd_chunks[i].enriched_text)})
        initial_ranked_cvs ==
            InitialRankedCvs(active_cv_ids,
                             Contributions(st, sim, jd_chunks, active_cv_ids, searchOk))
        top_cvs_for_llm_stage == Take(initial_ranked_cvs, NumLlmCandidates(request.top_n))
    IN IF Len(active_session_cvs) = 0
       THEN [request EXCEPT !.pc = "done", !.result = ReturnedList(<<>>)]
       ELSE IF SkipsVectorStage(request.top_n, total_cvs)
       THEN [request EXCEPT !.pc = "jd_text",
                            !.stagePool = BypassCandidates(active_session_cvs)]
       ELSE IF Len(jd_chunks) = 0
       THEN [request EXCEPT !.pc = "done", !.result = ReturnedNone,
                            !.calls.get_jd_chunks = @ + 1]
       ELSE IF Len(top_cvs_for_llm_stage) = 0
       THEN [request EXCEPT !.pc = "done", !.result = ReturnedList(<<>>),
                            !.fetched.jd_chunks = Len(jd_chunks),
                            !.calls.get_jd_chunks = @ + 1,
                            !.calls.search_cv_chunks = @ + searched]
       ELSE [request EXCEPT !.pc = "jd_text", !.stagePool = top_cvs_for_llm_stage,
                            !.fetched.jd_chunks = Len(jd_chunks),
                            !.calls.get_jd_chunks = @ + 1,
                            !.calls.search_cv_chunks = @ + searched]

NoScore == [some |-> FALSE, val |-> 0]

SomeScore(r) == [some |-> TRUE, val |-> r]

NoReasoning == [called |-> FALSE, ok |-> FALSE, score |-> NoScore]

\* what the comparator LLM call gives: an exception, empty content, content
\* that does not parse into an LLMJdCvComparisonOutput, or a verdict whose
\* llm_ranking_score may be null
LlmScores == {30, 70}

LlmReplies ==
    {[kind |-> k, score |-> NoScore] : k \in {"raises", "empty", "malformed"}}
    \cup {[kind |-> "verdict", score |-> sc] : sc \in {NoScore} \cup {SomeScore(r) : r \in LlmScores}}

\* lines 23-87: None on every failure, the parsed verdict otherwise
get_llm_comparison_for_cv(reply) ==
    IF reply.kind = "verdict"
    THEN [called |-> TRUE, ok |-> TRUE, score |-> reply.score]
    ELSE [called |-> TRUE, ok |-> FALSE, score |-> NoScore]

NewRankTask(cv_data_item) ==
    [pc |-> "fetch_cv", item |-> cv_data_item, cv_text |-> "pending", reasoning |-> NoReasoning,
     llm_calls |-> 0]

\* lines 243-249
WithoutCvText(cv_data_item) ==
    [cv_data_item EXCEPT !.scored = TRUE, !.llm_ranking_score = 0,
                         !.llm_skills_evaluation = "Error: Could not retrieve full CV text."]

\* lines 253-265
WithReasoning(cv_data_item, llm_reasoning) ==
    IF llm_reasoning.ok
    THEN [cv_data_item EXCEPT !.scored = TRUE,
                              !.llm_ranking_score = IF llm_reasoning.score.some
                                                    THEN llm_reasoning.score.val ELSE 0,
                              !.llm_skills_evaluation = "evaluation"]
    ELSE [cv_data_item EXCEPT !.scored = TRUE, !.llm_ranking_score = 0,
                              !.llm_skills_evaluation = "Error: LLM reasoning failed."]

\* lines 242-249: the task after its get_full_cv_text
AfterCvText(task, full_cv_text) ==
    IF full_cv_text.some
    THEN [task EXCEPT !.pc = "compare", !.cv_text = "found"]
    ELSE [task EXCEPT !.pc = "done", !.cv_text = "missing", !.item = WithoutCvText(@)]

\* a gather in which a failed comparison ends the tasks still running
AfterCompare_FailureEndsOthers(tasks, i, llm_reasoning) ==
    [t \in DOMAIN tasks |->
        IF t = i
        THEN [tasks[t] EXCEPT !.pc = "done", !.reasoning = llm_reasoning,
                              !.llm_calls = @ + 1,
                              !.item = WithReasoning(@, llm_reasoning)]
        ELSE IF ~llm_reasoning.ok /\ tasks[t].pc # "done"
        THEN [tasks[t] EXCEPT !.pc = "done", !.item = WithReasoning(@, llm_reasoning)]
        ELSE tasks[t]]

\* a task that calls the comparator again after a failed call
AfterCompare_RetriesFailure(tasks, i, llm_reasoning) ==
    [tasks EXCEPT ![i] = [@ EXCEPT !.pc = IF llm_reasoning.ok THEN "done" ELSE "compare",
                                   !.reasoning = llm_reasoning,
                                   !.llm_calls = @ + 1,
                                   !.item = WithReasoning(@, llm_reasoning)]]

\* lines 252-267: the tasks after task i's comparison; only task i's own
\* dict is written, and the task returns whatever the comparison gave
AfterCompare(tasks, i, llm_reasoning) ==
    [tasks EXCEPT ![i] = [@ EXCEPT !.pc = "done", !.reasoning = llm_reasoning,
                                   !.llm_calls = @ + 1,
                                   !.item = WithReasoning(@, llm_reasoning)]]

LlmRankingScore(x) == IF x.scored THEN x.llm_ranking_score ELSE 0

\* a final list without the candidates that got no verdict
FinalRankedCvs_DropsFailed(llm_augmented_cv_data) ==
    SortedDesc(SelectSeq(llm_augmented_cv_data,
                         LAMBDA x : x.llm_skills_evaluation = "evaluation"),
               LlmRankingScore)

\* line 284
FinalRankedCvs(llm_augmented_cv_data) == SortedDesc(llm_augmented_cv_data, LlmRankingScore)

RankInit ==
    /\ batch = NoBatch
    /\ client = NoClientCall
    /\ chunker = NoChunkerCall
    /\ store = RankedStore
    /\ lastRecon = NoRecon
    /\ lastAdd = NoAdd
    /\ ing = <<>>
    /\ \E request \in RankRequests :
          rank = [NoRank EXCEPT !.pc = "start", !.jd = request[1],
                                !.pool = request[2], !.top_n = request[3]]

\* lines 111-234
SizePool ==
    /\ rank.pc = "start"
    /\ \E scrollOk \in BOOLEAN, sim \in SimTables :
       \E order \in FetchOrders(store, JD_COLLECTION_NAME, rank.jd) :
       \E searchOk \in [1..Len(order) -> BOOLEAN] :
          rank' = StageOne(store, rank, scrollOk, order, sim, searchOk)
    /\ UNCHANGED <<store, lastRecon, lastAdd, ing, chunker, client, batch>>

\* lines 269-278: the JD's full text, then one task per candidate
FetchJdText ==
    /\ rank.pc = "jd_text"
    /\ \E scrollOk \in BOOLEAN :
       \E order \in FetchOrders(store, JD_COLLECTION_NAME, rank.jd) :
          LET jd_full_text == get_full_document_text_from_db(store, JD_COLLECTION_NAME,
                                                             rank.jd, scrollOk, order)
          IN rank' = IF ~jd_full_text.some
                     THEN [rank EXCEPT !.pc = "done",
                                       !.result = ReturnedList(rank.stagePool),
                                       !.fetched.jd_text = "missing",
                                       !.calls.get_full_jd_text = @ + 1]
                     ELSE [rank EXCEPT !.pc = "gather",
                                       !.tasks = [i \in 1..Len(rank.stagePool) |->
                                                     NewRankTask(rank.stagePool[i])],
                                       !.fetched.jd_text = "found",
                                       !.calls.get_full_jd_text = @ + 1]
    /\ UNCHANGED <<store, lastRecon, lastAdd, ing, chunker, client, batch>>

\* line 242 of one task
TaskFetchCvText(i) ==
    /\ rank.pc = "gather"
    /\ rank.tasks[i].pc = "fetch_cv"
    /\ \E scrollOk \in BOOLEAN :
       \E order \in FetchOrders(store, CV_COLLECTION_NAME, rank.tasks[i].item.cv_id) :
          rank' = [rank EXCEPT !.tasks[i] =
                      AfterCvText(@, get_full_document_text_from_db(
                                         store, CV_COLLECTION_NAME,
                                         rank.tasks[i].item.cv_id, scrollOk, order))]
    /\ UNCHANGED <<store, lastRecon, lastAdd, ing, chunker, client, batch>>

\* line 252 of one task
TaskCompare(i) ==
    /\ rank.pc = "gather"
    /\ rank.tasks[i].pc = "compare"
    /\ \E reply \in LlmReplies :
          rank' = [rank EXCEPT !.tasks = AfterCompare(@, i, get_llm_comparison_for_cv(reply))]
    /\ UNCHANGED <<store, lastRecon, lastAdd, ing, chunker, client, batch>>

FetchCvText == \E i \in DOMAIN rank.tasks : TaskFetchCvText(i)

Compare == \E i \in DOMAIN rank.tasks : TaskCompare(i)

\* a gather that also deletes the stored chunks of the candidates it ranked
Gather_DeletesRankedCvs ==
    /\ rank.pc = "gather"
    /\ \A i \in DOMAIN rank.tasks : rank.tasks[i].pc = "done"
    /\ rank' = [rank EXCEPT !.pc = "done",
                            !.result = ReturnedList(FinalRankedCvs(
                                           [i \in DOMAIN rank.tasks |-> rank.tasks[i].item]))]
    /\ store' = [store EXCEPT ![CV_COLLECTION_NAME] =
                    {pt \in @ : \A i \in DOMAIN rank.tasks :
                                    pt.original_doc_id # rank.tasks[i].item.cv_id}]
    /\ UNCHANGED <<lastRecon, lastAdd, ing, chunker, client, batch>>

\* lines 281-287: every task has returned
Gather ==
    /\ rank.pc = "gather"
    /\ \A i \in DOMAIN rank.tasks : rank.tasks[i].pc = "done"
    /\ rank' = [rank EXCEPT !.pc = "done",
                            !.result = ReturnedList(FinalRankedCvs(
                                           [i \in DOMAIN rank.tasks |-> rank.tasks[i].item]))]
    /\ UNCHANGED <<store, lastRecon, lastAdd, ing, chunker, client, batch>>

RankNext == SizePool \/ FetchJdText \/ FetchCvText \/ Compare \/ Gather

SpecRank == RankInit /\ [][RankNext]_vars /\ WF_vars(RankNext)


-----------------------------------------------------------------------------
(* Claims on ranking *)

RankReturned == rank.pc = "done"

DistinctCandidates == Len(DistinctIds(rank.pool))

CountIn(items, P(_)) == Cardinality({k \in 1..Len(items) : P(items[k])})

AllScored(items) == \A k \in 1..Len(items) : items[k].scored

DescendingByLlmScore(items) ==
    \A k, l \in 1..Len(items) :
        k < l => items[k].llm_ranking_score >= items[l].llm_ranking_score

ErrorMessages == {"Error: Could not retrieve full CV text.", "Error: LLM reasoning failed."}

\* On the bypass path the JD's chunks are never fetched and the similarity
\* search is never called.
BypassNeverPrefilters ==
    (rank.pc # "idle" /\ rank.pc # "start"
        /\ SkipsVectorStage(rank.top_n, DistinctCandidates))
    => (rank.calls.get_jd_chunks = 0 /\ rank.calls.search_cv_chunks = 0)

\* C2: a ranking request with topN unset or topN >= the number of candidate
\* CVs never fetches the JD's chunks, never calls the vector similarity search,
\* and every candidate of the pool is scored by the LLM stage.
C2_BypassScoresEveryCandidate ==
    (RankReturned /\ Len(rank.pool) > 0
        /\ (~rank.top_n.some \/ rank.top_n.val >= Len(rank.pool)))
    => /\ rank.calls.get_jd_chunks = 0
       /\ rank.calls.search_cv_chunks = 0
       /\ rank.result.kind = "list"
       /\ \A i \in 1..Len(rank.pool) :
             \E k \in 1..Len(rank.result.items) :
                 /\ rank.result.items[k].cv_id = rank.pool[i]
                 /\ rank.result.items[k].scored

C4_AlwaysScored ==
    (RankReturned /\ Len(rank.pool) > 0)
    => /\ rank.result.kind = "list"
       /\ rank.fetched.jd_text = "found"
       /\ Len(rank.result.items) > 0
       /\ AllScored(rank.result.items)

TaskFailed(t) == t.cv_text = "missing" \/ (t.reasoning.called /\ ~t.reasoning.ok)

\* C5: LLM scoring never drops a candidate: the returned list has exactly the
\* cv_ids of the pool handed to the LLM stage, and a candidate whose CV text
\* could not be fetched or whose comparator call failed is in the list with
\* llm_ranking_score 0.0 and an error message as its evaluation.
C5_NoCandidateDropped ==
    (RankReturned /\ rank.fetched.jd_text # "pending")
    => /\ rank.result.kind = "list"
       /\ Len(rank.result.items) = Len(rank.stagePool)
       /\ \A id \in AllCvIds :
             CountIn(rank.result.items, LAMBDA x : x.cv_id = id)
                = CountIn(rank.stagePool, LAMBDA x : x.cv_id = id)
       /\ \A i \in DOMAIN rank.tasks :
             TaskFailed(rank.tasks[i]) =>
                /\ rank.tasks[i].item.scored
                /\ rank.tasks[i].item.llm_ranking_score = 0
                /\ rank.tasks[i].item.llm_skills_evaluation \in ErrorMessages
                /\ CountIn(rank.result.items, LAMBDA x : x = rank.tasks[i].item)
                      = Cardinality({j \in DOMAIN rank.tasks :
                                        rank.tasks[j].item = rank.tasks[i].item})

\* C5 witness: a returned list of three with a candidate without CV text, a
\* candidate whose comparison failed and a candidate with a verdict
C5_Witness ==
    /\ RankReturned /\ Len(rank.tasks) = 3 /\ Len(rank.result.items) = 3
    /\ \E i, j, k \in DOMAIN rank.tasks :
          /\ rank.tasks[i].cv_text = "missing"
          /\ rank.tasks[j].reasoning.called /\ ~rank.tasks[j].reasoning.ok
          /\ rank.tasks[k].reasoning.ok /\ rank.tasks[k].item.llm_ranking_score > 0

\* C6: the comparator tasks of all candidates exist before any is awaited, and
\* under every interleaving each task's result depends on its own CV text and
\* its own comparator reply only: a failed task changes no other task, blocks
\* none, and every task with a verdict keeps the score of that verdict in the
\* returned list.
C6_TasksIsolated ==
    (rank.pc = "gather" \/ (RankReturned /\ rank.fetched.jd_text = "found"))
    => /\ Len(rank.tasks) = Len(rank.stagePool)
       /\ \A i \in DOMAIN rank.tasks :
            LET t == rank.tasks[i]
                own == rank.stagePool[i]
            IN /\ t.pc = "fetch_cv" =>
                    /\ t.item = own /\ t.cv_text = "pending" /\ ~t.reasoning.called
                    /\ rank.pc = "gather" => ENABLED TaskFetchCvText(i)
               /\ t.pc = "compare" =>
                    /\ t.item = own /\ t.cv_text = "found" /\ ~t.reasoning.called
                    /\ rank.pc = "gather" => ENABLED TaskCompare(i)
               /\ t.pc = "done" =>
                    \/ /\ t.cv_text = "missing" /\ ~t.reasoning.called
                       /\ t.item = WithoutCvText(own)
                    \/ /\ t.cv_text = "found" /\ t.reasoning.called /\ ~t.reasoning.ok
                       /\ t.item = [own EXCEPT !.scored = TRUE, !.llm_ranking_score = 0,
                                               !.llm_skills_evaluation = "Error: LLM reasoning failed."]
                    \/ /\ t.cv_text = "found" /\ t.reasoning.called /\ t.reasoning.ok
                       /\ t.item = [own EXCEPT !.scored = TRUE,
                                               !.llm_ranking_score =
                                                   IF t.reasoning.score.some
                                                   THEN t.reasoning.score.val ELSE 0,
                                               !.llm_skills_evaluation = "evaluation"]
               /\ RankReturned => \E k \in 1..Len(rank.result.items) : rank.result.items[k] = t.item
       /\ (rank.pc = "gather" /\ \A i \in DOMAIN rank.tasks : rank.tasks[i].pc = "done")
             => ENABLED Gather

\* C6 witness: a returned batch of five in which one candidate's comparator
\* call failed and the other four have the scores of their own verdicts
C6_Witness ==
    /\ RankReturned /\ Len(rank.tasks) = 5 /\ Len(rank.result.items) = 5
    /\ \E i \in DOMAIN rank.tasks :
          /\ rank.tasks[i].reasoning.called /\ ~rank.tasks[i].reasoning.ok
          /\ \A j \in DOMAIN rank.tasks \ {i} :
                /\ rank.tasks[j].reasoning.ok
                /\ rank.tasks[j].reasoning.score.some
                /\ \E k \in 1..5 :
                      /\ rank.result.items[k].cv_id = rank.tasks[j].item.cv_id
                      /\ rank.result.items[k].llm_ranking_score = rank.tasks[j].reasoning.score.val
          /\ \E k \in 1..5 :
                /\ rank.result.items[k].cv_id = rank.tasks[i].item.cv_id
                /\ rank.result.items[k].llm_ranking_score = 0
                /\ rank.result.items[k].llm_skills_evaluation = "Error: LLM reasoning failed."


\* C20: no step of a ranking request, on either path, upserts, deletes or
\* modifies a stored chunk: the JD and CV collections are the same at the end
\* of calculate_cv_ranking as at its start.
C20_RankingLeavesStore == [][store' = store]_vars

\* C20 witness: a request that went through the prefilter and the LLM stage
\* has returned a scored list, and the store is the one it started with
C20_Witness ==
    /\ RankReturned
    /\ rank.calls.search_cv_chunks > 0
    /\ rank.fetched.jd_text = "found"
    /\ Len(rank.result.items) > 0
    /\ store = RankedStore
    /\ store[CV_COLLECTION_NAME] # {}

\* C24: within one ranking request the comparator LLM is called at most once
\* per candidate of the scoring pool and the JD's full text is reconstructed
\* once; a failed comparator call is recorded as score 0.0 and is never
\* followed by a second call for that candidate.
C24_NoRetryInRanking ==
    /\ rank.calls.get_full_jd_text <= 1
    /\ Len(rank.tasks) > 0
         => (rank.calls.get_full_jd_text = 1 /\ Len(rank.tasks) = Len(rank.stagePool))
    /\ \A i \in DOMAIN rank.tasks :
          LET task == rank.tasks[i]
          IN /\ task.llm_calls <= 1
             /\ task.llm_calls = 1 <=> task.reasoning.called
             /\ task.reasoning.called => ~ENABLED TaskCompare(i)
             /\ (task.reasoning.called /\ ~task.reasoning.ok)
                  => /\ task.pc = "done"
                     /\ task.item.scored
                     /\ task.item.llm_ranking_score = 0
                     /\ task.item.llm_skills_evaluation = "Error: LLM reasoning failed."

\* C24 witness: a request returned after the comparator failed for one
\* candidate and gave a verdict for another, each called once
C24_Witness ==
    /\ RankReturned
    /\ rank.calls.get_full_jd_text = 1
    /\ \E i, j \in DOMAIN rank.tasks :
          /\ rank.tasks[i].llm_calls = 1 /\ ~rank.tasks[i].reasoning.ok
          /\ rank.tasks[i].item.llm_ranking_score = 0
          /\ rank.tasks[j].llm_calls = 1 /\ rank.tasks[j].reasoning.ok
          /\ rank.tasks[j].item.llm_ranking_score > 0

\* C29: the list returned by a ranking request contains each distinct
\* candidate cv_id at most once, also when the request's candidate list
\* repeats a cv_id, and its length never exceeds the number of distinct
\* candidates.
C29_ResultHasDistinctCandidates ==
    (RankReturned /\ rank.result.kind = "list")
    => /\ \A id \in AllCvIds : CountIn(rank.result.items, LAMBDA x : x.cv_id = id) <= 1
       /\ Len(rank.result.items) <= DistinctCandidates

\* on the narrowing path the returned list has each cv_id at most once
NarrowedResultHasDistinctCandidates ==
    (RankReturned /\ rank.result.kind = "list"
        /\ ~SkipsVectorStage(rank.top_n, DistinctCandidates))
    => /\ \A id \in AllCvIds : CountIn(rank.result.items, LAMBDA x : x.cv_id = id) <= 1
       /\ Len(rank.result.items) <= DistinctCandidates

\* a narrowing request whose candidate list repeats a cv_id returned a list
NarrowedRepeatedRequest ==
    /\ RankReturned /\ rank.result.kind = "list"
    /\ ~SkipsVectorStage(rank.top_n, DistinctCandidates)
    /\ Len(rank.pool) > DistinctCandidates
    /\ Len(rank.result.items) > 0

-----------------------------------------------------------------------------
(* Search specification: one search_cv_chunks call on the stored CVs *)

\* largest top_k of a search of the model
MaxTopK == 3

SearchQueries == Queries \cup {<<" ">>}

\* no allowlist, an empty one, lists of stored documents, a list of an id that
\* is not stored
SearchFilters ==
    {NoFilter, DocIdFilter(<<>>), DocIdFilter(<<"c1">>), DocIdFilter(<<"c1", "c2">>),
     DocIdFilter(<<"c9">>)}

SearchInit ==
    /\ batch = NoBatch
    /\ store = RankedStore
    /\ lastRecon = NoRecon
    /\ lastAdd = NoAdd
    /\ ing = <<>>
    /\ rank = NoRank
    /\ chunker = NoChunkerCall
    /\ \E query_text \in SearchQueries, top_k \in 1..MaxTopK,
          filter_by_doc_ids \in SearchFilters, sim \in SimTables, searchOk \in BOOLEAN :
          client = [pc |-> "called", query_text |-> query_text, top_k |-> top_k,
                    filter_by_doc_ids |-> filter_by_doc_ids, sim |-> sim,
                    searchOk |-> searchOk, hits |-> <<>>]

SearchCvChunks ==
    /\ client.pc = "called"
    /\ client' = [client EXCEPT
                     !.pc = "done",
                     !.hits = search_cv_chunks(store, client.sim, client.query_text,
                                               client.top_k, client.filter_by_doc_ids,
                                               client.searchOk)]
    /\ UNCHANGED <<store, lastRecon, lastAdd, ing, rank, chunker, batch>>

SearchNext == SearchCvChunks

SpecSearch == SearchInit /\ [][SearchNext]_vars /\ WF_vars(SearchNext)

\* at most top_k hits, each with the similarity of its document to the query
SearchAtMostTopKScored ==
    client.pc = "done"
        => /\ Len(client.hits) <= client.top_k
           /\ \A i \in 1..Len(client.hits) :
                 client.hits[i]._score
                    = client.sim[<<client.query_text, client.hits[i].original_doc_id>>]

\* with a non-empty allowlist every hit is of a listed document
SearchWithinNonEmptyAllowlist ==
    (client.pc = "done" /\ Len(client.filter_by_doc_ids.ids) > 0)
        => \A i \in 1..Len(client.hits) :
              client.hits[i].original_doc_id \in SeqRange(client.filter_by_doc_ids.ids)

\* C18: search returns at most topK hits, each annotated with its similarity
\* score, and when a document-id allowlist is given every returned hit has
\* its original_doc_id in the allowlist.
C18_SearchTopKWithinAllowlist ==
    client.pc = "done"
        => /\ SearchAtMostTopKScored
           /\ client.filter_by_doc_ids.given
                => \A i \in 1..Len(client.hits) :
                      client.hits[i].original_doc_id
                          \in SeqRange(client.filter_by_doc_ids.ids)

-----------------------------------------------------------------------------
(* Fetch specification: get_qdrantchunk_content called twice for one        *)
(* document, with or without an ingestion in between                        *)

\* documents fetched: a stored JD, a stored CV, an id nothing is stored under
FetchDocIds == {"j1", "c1", "c9"}

NotFetched == [called |-> FALSE, ok |-> FALSE, chunks |-> <<>>]

FetchInit ==
    /\ batch = NoBatch
    /\ store = RankedStore
    /\ lastRecon = NoRecon
    /\ lastAdd = NoAdd
    /\ ing = <<>>
    /\ rank = NoRank
    /\ chunker = NoChunkerCall
    /\ \E coll \in Collections, doc \in FetchDocIds :
          client = [pc |-> "start", coll |-> coll, doc |-> doc, written |-> FALSE,
                    first |-> NotFetched, second |-> NotFetched]

\* one get_qdrantchunk_content call: the scroll works or raises, and the store
\* hands the document's points back in some order
FetchChunks ==
    /\ client.pc \in {"start", "once"}
    /\ \E scrollOk \in BOOLEAN :
         \E order \in FetchOrders(store, client.coll, client.doc) :
            LET got == [called |-> TRUE, ok |-> scrollOk,
                        chunks |-> get_qdrantchunk_content(scrollOk, order)]
            IN client' = IF client.pc = "start"
                         THEN [client EXCEPT !.pc = "once", !.first = got]
                         ELSE [client EXCEPT !.pc = "done", !.second = got]
    /\ UNCHANGED <<store, lastRecon, lastAdd, ing, rank, chunker, batch>>

\* an ingestion of the same document between the two calls
IngestBetween ==
    /\ client.pc = "once"
    /\ ~client.written
    /\ \E chunks \in ChunkOutcomes, upsertOk \in BOOLEAN :
          LET done == ProcessChunks(store, chunks, client.coll, client.doc, upsertOk)
          IN /\ done.ok
             /\ store' = done.store
             /\ client' = [client EXCEPT !.written = TRUE]
    /\ UNCHANGED <<lastRecon, lastAdd, ing, rank, chunker, batch>>

FetchNext == FetchChunks \/ IngestBetween

SpecFetch == FetchInit /\ [][FetchNext]_vars /\ WF_vars(FetchChunks)

\* the two calls were made with no write in between
FetchedTwiceNoWrite == client.pc = "done" /\ ~client.written

SameChunks(a, b) == Len(a) = Len(b) /\ SeqRange(a) = SeqRange(b)

-----------------------------------------------------------------------------
(* Prefilter specification: stage 1 of calculate_cv_ranking (lines 144-230) *)
(* on the stored JDs and CVs, keeping the hits it scored                     *)

\* candidate lists of the prefilter: more distinct candidates than top_n
PrefilterPools ==
    {<<"c1", "c2">>, <<"c2", "c1">>, <<"c1", "c2", "c3">>, <<"c3", "c2", "c1", "c2">>,
     <<"c2", "c3", "c1", "c4">>}

PrefilterInit ==
    /\ store = RankedStore
    /\ lastRecon = NoRecon
    /\ lastAdd = NoAdd
    /\ ing = <<>>
    /\ rank = NoRank
    /\ chunker = NoChunkerCall
    /\ batch = NoBatch
    /\ \E jd \in {"j1", "j2"}, pool \in PrefilterPools, n \in 1..MaxPool,
          sim \in SimTables :
          /\ ~SkipsVectorStage(TopN(n), Len(DistinctIds(pool)))
          /\ client = [pc |-> "called", jd |-> jd, pool |-> pool, top_n |-> TopN(n),
                       sim |-> sim, jd_chunks |-> <<>>, searchOk |-> <<>>,
                       ranked |-> <<>>, kept |-> <<>>]

\* lines 148-230: the JD's chunks are fetched, every non-blank one is
\* searched, the candidates are scored, sorted and cut to top_n
Prefilter ==
    /\ client.pc = "called"
    /\ \E order \in FetchOrders(store, JD_COLLECTION_NAME, client.jd) :
       \E searchOk \in [1..Len(order) -> BOOLEAN] :
          LET active_cv_ids == DistinctIds(client.pool)
              jd_chunks == get_qdrantchunk_content(TRUE, order)
              initial_ranked_cvs ==
                  InitialRankedCvs(active_cv_ids,
                                   Contributions(store, client.sim, jd_chunks,
                                                 active_cv_ids, searchOk))
          IN client' = [client EXCEPT
                           !.pc = "done", !.jd_chunks = jd_chunks, !.searchOk = searchOk,
                           !.ranked = initial_ranked_cvs,
                           !.kept = Take(initial_ranked_cvs, NumLlmCandidates(client.top_n))]
    /\ UNCHANGED <<store, lastRecon, lastAdd, ing, rank, chunker, batch>>

PrefilterNext == Prefilter

SpecPrefilter == PrefilterInit /\ [][PrefilterNext]_vars /\ WF_vars(PrefilterNext)

\* similarity squared times the JD chunk's weight, for every JD chunk whose
\* search ran and returned the CV's chunk
ContributionsTo(cv_id) ==
    {client.sim[<<client.jd_chunks[i].enriched_text, cv_id>>]
        * client.sim[<<client.jd_chunks[i].enriched_text, cv_id>>]
        * client.jd_chunks[i].weight :
        i \in {k \in 1..Len(client.jd_chunks) : client.searchOk[k]}}

\* C22: in the vector prefilter each CV's stage-1 score is the maximum, over
\* all JD-chunk queries and all hits for that CV, of similarity squared times
\* the JD chunk's weight (never the sum); the candidates are in descending
\* order of that score and the first topN are kept.
C22_StageOneScoreIsMax ==
    client.pc = "done"
        => /\ {client.ranked[i].cv_id : i \in 1..Len(client.ranked)}
                = {client.pool[i] : i \in 1..Len(client.pool)}
           /\ \A i \in 1..Len(client.ranked) :
                 LET mine == ContributionsTo(client.ranked[i].cv_id)
                     score == client.ranked[i].initial_vector_score
                 IN /\ \A c \in mine : c <= score
                    /\ IF mine = {} THEN score = 0 ELSE score \in mine
           /\ \A i, j \in 1..Len(client.ranked) :
                 i < j => client.ranked[i].initial_vector_score
                            >= client.ranked[j].initial_vector_score
           /\ Len(client.kept) = client.top_n.val
           /\ \A i \in 1..Len(client.kept) : client.kept[i] = client.ranked[i]

\* C22 witness: the CV whose best contribution is 0.9^2 x 3 was kept ahead of
\* the CV whose best contribution is 0.99^2 x 1, each having two hits
C22_Witness ==
    /\ client.pc = "done"
    /\ client.top_n.val = 1
    /\ client.pool[1] = "c2"
    /\ Len(client.ranked) >= 2
    /\ client.ranked[1].cv_id = "c1" /\ client.ranked[1].initial_vector_score = 90 * 90 * 3
    /\ client.ranked[2].cv_id = "c2" /\ client.ranked[2].initial_vector_score = 99 * 99 * 1
    /\ client.ranked[1].match_count = 2 /\ client.ranked[2].match_count = 2
    /\ client.kept[1].cv_id = "c1"

-----------------------------------------------------------------------------
(* Scroll specification: the page loop of get_qdrantchunk_content           *)
(* (src/vector_db/vectordb_client.py lines 259-296)                          *)

\* points per scroll request (limit_per_scroll, 100 in the code), scaled down
limit_per_scroll == 2

\* most chunks of the document that is fetched
MaxChunks == 5

NoOffset == [some |-> FALSE, val |-> 0]

\* the store's scroll: the points that pass the filter are kept in a fixed
\* order; a request returns up to limit of them from the offset on, and the
\* offset of the first point it left out, if any
StoreScroll(matching, offset, limit) ==
    LET from == IF offset.some THEN offset.val ELSE 1
        to == Min2(from + limit - 1, Len(matching))
    IN [points |-> SubSeq(matching, from, to),
        next_page_offset |-> IF to < Len(matching)
                             THEN [some |-> TRUE, val |-> to + 1] ELSE NoOffset]

\* a document of n chunks, as the persist stores it
ChunksOfLength(n) == [i \in 1..n |-> ChunkDataToAdd(ObjPlain)]

\* a loop that stops after its first page
ScrollExhausted_AfterFirstPage(next_page_offset) == TRUE

\* lines 283-284: if next_page_offset is None: break
ScrollExhausted(next_page_offset) == ~next_page_offset.some

ScrollInit ==
    /\ lastRecon = NoRecon
    /\ lastAdd = NoAdd
    /\ ing = <<>>
    /\ rank = NoRank
    /\ chunker = NoChunkerCall
    /\ batch = NoBatch
    /\ \E n \in 0..MaxChunks :
          /\ store = [c \in Collections |->
                         IF c = JD_COLLECTION_NAME
                         THEN PointsFor(ChunksOfLength(n), c, "d1", 0)
                              \cup PointsFor(ChunksOfLength(1), c, "d2", 0)
                         ELSE {}]
          /\ \E matching \in FetchOrders(store, JD_COLLECTION_NAME, "d1") :
                client = [pc |-> "scroll", doc |-> "d1", matching |-> matching,
                          next_page_offset |-> NoOffset, requests |-> 0,
                          retrieved_chunks |-> <<>>, failed |-> FALSE, result |-> <<>>]

\* lines 263-284: one scroll request and what the loop does with its answer
ScrollPage ==
    /\ client.pc = "scroll"
    /\ LET page == StoreScroll(client.matching, client.next_page_offset, limit_per_scroll)
           retrieved == client.retrieved_chunks \o page.points
       IN client' = IF ScrollExhausted(page.next_page_offset)
                    THEN [client EXCEPT !.pc = "done", !.requests = @ + 1,
                                        !.next_page_offset = page.next_page_offset,
                                        !.retrieved_chunks = retrieved,
                                        !.result = retrieved]
                    ELSE [client EXCEPT !.requests = @ + 1,
                                        !.next_page_offset = page.next_page_offset,
                                        !.retrieved_chunks = retrieved]
    /\ UNCHANGED <<store, lastRecon, lastAdd, ing, rank, chunker, batch>>

\* lines 294-296: a scroll request raises and the call returns []
ScrollRaises ==
    /\ client.pc = "scroll"
    /\ client' = [client EXCEPT !.pc = "done", !.requests = @ + 1, !.failed = TRUE,
                                !.result = <<>>]
    /\ UNCHANGED <<store, lastRecon, lastAdd, ing, rank, chunker, batch>>

ScrollNext == ScrollPage \/ ScrollRaises

SpecScroll == ScrollInit /\ [][ScrollNext]_vars /\ WF_vars(ScrollNext)

\* C23: fetchChunks returns every chunk of the document across all pages: it
\* asks for the next page with the cursor the previous page returned and
\* stops exactly when the store returns no cursor, so no chunk is missing or
\* duplicated, also for a document with more chunks than a page holds, and
\* the loop ends once the store has exhausted the result set.
C23_ScrollReturnsEveryChunk ==
    LET n == Len(client.matching)
        pages == IF n = 0 THEN 1 ELSE (n + limit_per_scroll - 1) \div limit_per_scroll
    IN /\ client.requests <= pages
       /\ client.pc = "scroll"
            => /\ Len(client.retrieved_chunks) = client.requests * limit_per_scroll
               /\ client.requests > 0
                    => client.next_page_offset
                         = [some |-> TRUE, val |-> Len(client.retrieved_chunks) + 1]
               /\ ENABLED ScrollPage
       /\ (client.pc = "done" /\ ~client.failed)
            => /\ client.result = client.matching
               /\ SeqRange(client.result) = DocPoints(store, JD_COLLECTION_NAME, client.doc)
               /\ Len(client.result) = Cardinality(SeqRange(client.result))
               /\ client.requests = pages

\* C23 witness: a document with more chunks than two pages hold came back
\* whole, each chunk once
C23_Witness ==
    /\ client.pc = "done" /\ ~client.failed
    /\ Len(client.result) > 2 * limit_per_scroll
    /\ Cardinality(SeqRange(client.result)) = Len(client.result)
    /\ client.requests > 2

-----------------------------------------------------------------------------
(* JD upload specification: upload_jd (src/routes.py lines 257-340) *)

JdParseOutcomes == {"parsed", "error_dict"}

NoJdResponse == [returned |-> FALSE, jd_id |-> None, error |-> None]

\* lines 270-277, 297-304, 314-328: the LocalJDUploadResponse
JdResponse(jd_id, error) == [returned |-> TRUE, jd_id |-> jd_id, error |-> error]

\* a chunking call that raised, or an upsert that raised once the points
\* were built: the failures of the services add_jd_to_db depends on
UpstreamFailure(st, content, reply, upsertOk, docId) ==
    \/ (content.b64 \/ content.raw) /\ reply.kind = "throws"
    \/ /\ ~upsertOk
       /\ ProcessChunks(st, chunk_document_with_llm(content, reply),
                        JD_COLLECTION_NAME, docId, TRUE).ok

JdUploadInit ==
    /\ store = [c \in Collections |-> {}]
    /\ lastRecon = NoRecon
    /\ lastAdd = NoAdd
    /\ ing = <<>>
    /\ rank = NoRank
    /\ chunker = NoChunkerCall
    /\ batch = NoBatch
    /\ \E file_error \in BOOLEAN, content \in Contents :
          client = [pc |-> "file", file_error |-> file_error, content |-> content,
                    reply |-> None, add_jd_to_db_calls |-> 0, parse_calls |-> 0,
                    upstream_failure |-> FALSE, response |-> NoJdResponse]

\* lines 269-277: the file content could not be processed
JdFileError ==
    /\ client.pc = "file"
    /\ client.file_error
    /\ client' = [client EXCEPT !.pc = "done",
                                !.response = JdResponse("", "file processing error")]
    /\ UNCHANGED <<store, lastRecon, lastAdd, ing, rank, chunker, batch>>

\* lines 284-304: the one call of add_jd_to_db and the response when it
\* returned None
JdAddToDb ==
    /\ client.pc = "file"
    /\ ~client.file_error
    /\ \E reply \in LlmChunkReplies, upsertOk \in BOOLEAN,
          original_doc_id \in UnusedDocIds(store) :
          LET jd_chunks == chunk_document_with_llm(client.content, reply)
              done == ProcessChunks(store, jd_chunks, JD_COLLECTION_NAME,
                                    original_doc_id, upsertOk)
              failure == UpstreamFailure(store, client.content, reply, upsertOk,
                                         original_doc_id)
          IN /\ store' = done.store
             /\ client' = IF done.ok
                          THEN [client EXCEPT !.pc = "parse", !.reply = reply,
                                              !.add_jd_to_db_calls = @ + 1,
                                              !.upstream_failure = failure,
                                              !.response = [@ EXCEPT !.jd_id = original_doc_id]]
                          ELSE [client EXCEPT !.pc = "done", !.reply = reply,
                                              !.add_jd_to_db_calls = @ + 1,
                                              !.upstream_failure = failure,
                                              !.response = JdResponse("", "Failed to add JD to vector DB")]
    /\ UNCHANGED <<lastRecon, lastAdd, ing, rank, chunker, batch>>

\* lines 307-328: the one call of parse_jd_with_llm and the response
JdParse ==
    /\ client.pc = "parse"
    /\ \E parsed \in JdParseOutcomes :
          client' = [client EXCEPT !.pc = "done", !.parse_calls = @ + 1,
                                  !.upstream_failure = @ \/ parsed = "error_dict",
                                  !.response = JdResponse(client.response.jd_id,
                                                          IF parsed = "parsed" THEN None
                                                          ELSE "parse error")]
    /\ UNCHANGED <<store, lastRecon, lastAdd, ing, rank, chunker, batch>>

JdUploadNext == JdFileError \/ JdAddToDb \/ JdParse

SpecJdUpload == JdUploadInit /\ [][JdUploadNext]_vars /\ WF_vars(JdUploadNext)

\* C25: during ingestion of a JD or a CV, an upstream transient failure (a
\* failed embedding, LLM or network call) causes the ingestion to be retried,
\* a bounded number of times, before its result is reported. For a JD: a
\* response reported after an upstream failure was preceded by a second call
\* of the step that failed.
C25_JdIngestionRetried ==
    (client.response.returned /\ client.upstream_failure)
    => (client.add_jd_to_db_calls > 1 \/ client.parse_calls > 1)

\* every JD upload calls add_jd_to_db and parse_jd_with_llm at most once
JdUploadCallsOnce ==
    client.add_jd_to_db_calls <= 1 /\ client.parse_calls <= 1

-----------------------------------------------------------------------------
(* Collection setup specification: _initialize_collection and               *)
(* initialize_qdrant_collections (src/vector_db/vectordb_client.py 36-108)   *)

\* lines 106-107: the JD collection first, then the CV collection
CollectionOrder == <<JD_COLLECTION_NAME, CV_COLLECTION_NAME>>

\* lines 52-65 and 78-91: original_doc_id for both collections, weight for
\* the JD collection only
FieldsToIndex(collection_name) ==
    IF collection_name = JD_COLLECTION_NAME
    THEN <<"original_doc_id", "weight">> ELSE <<"original_doc_id">>

AbsentCollection == [exists |-> FALSE, indexes |-> {}]

\* a collection as the store can hold it before a call: absent, or present
\* with any of its indexes
CollectionStates(c) ==
    {AbsentCollection}
    \cup {[exists |-> TRUE, indexes |-> ix] : ix \in SUBSET SeqRange(FieldsToIndex(c))}

\* both collections with exactly their indexes
FullySetUp(db) ==
    \A c \in Collections :
        db[c] = [exists |-> TRUE, indexes |-> SeqRange(FieldsToIndex(c))]

\* what a store call does: it succeeds, or raises for a reason that has
\* nothing to do with the request
CallOutcomes == {"ok", "error"}

NewInitializer ==
    [pc |-> "get_collection", at |-> 1, todo |-> <<>>, lost_race |-> FALSE,
     call_error |-> FALSE, raised |-> FALSE]

\* the collection an initializer is working on
CollectionOf(proc) == CollectionOrder[proc.at]

\* lines 106-108: _initialize_collection returned; on to the next collection
NextCollection(proc) ==
    IF proc.at < Len(CollectionOrder)
    THEN [proc EXCEPT !.pc = "get_collection", !.at = @ + 1, !.todo = <<>>]
    ELSE [proc EXCEPT !.pc = "done", !.todo = <<>>]

\* an initializer that lets the exception of create_collection escape
AfterCreateFailed_Raises(proc, lost) ==
    [proc EXCEPT !.pc = "done", !.raised = TRUE, !.lost_race = @ \/ lost,
                 !.call_error = @ \/ ~lost]

\* lines 94-95: the exception of create_collection is logged
AfterCreateFailed(proc, lost) ==
    NextCollection([proc EXCEPT !.lost_race = @ \/ lost, !.call_error = @ \/ ~lost])

\* lines 66-68 and 92-93: the exception of create_payload_index is logged and
\* the remaining index of the collection is not attempted
AfterIndexFailed(proc, lost) ==
    NextCollection([proc EXCEPT !.lost_race = @ \/ lost, !.call_error = @ \/ ~lost])

\* one initializer at a time (a second call after the first), or two at once
SetupModes == {"sequential", "concurrent"}

SetupInit ==
    /\ store = [c \in Collections |-> {}]
    /\ lastRecon = NoRecon
    /\ lastAdd = NoAdd
    /\ ing = <<>>
    /\ rank = NoRank
    /\ chunker = NoChunkerCall
    /\ batch = NoBatch
    /\ \E mode \in SetupModes, rejects \in BOOLEAN :
       \E db \in [Collections -> UNION {CollectionStates(c) : c \in Collections}] :
          /\ \A c \in Collections : db[c] \in CollectionStates(c)
          /\ client = [pc |-> "setup", mode |-> mode, index_rejects_existing |-> rejects,
                       before |-> db, db |-> db, after_first |-> db,
                       procs |-> <<NewInitializer, NewInitializer>>]

\* the second initializer of a sequential run starts when the first returned
MayStep(p) ==
    client.pc = "setup"
    /\ (client.mode = "concurrent" \/ p = 1 \/ client.procs[1].pc = "done")

\* the state after initializer p moved to proc; the collections are
\* remembered when the first initializer returns
AfterStep(p, proc, db) ==
    [client EXCEPT !.procs[p] = proc, !.db = db,
                   !.after_first = IF p = 1 /\ proc.pc = "done" THEN db ELSE @]

\* lines 45-46 and 70-71: get_collection raises when the collection is
\* absent, and every exception leads to the creation branch
GetCollectionStep(p) ==
    /\ MayStep(p)
    /\ client.procs[p].pc = "get_collection"
    /\ LET proc == client.procs[p]
           c == CollectionOf(proc)
       IN \E outcome \in CallOutcomes :
             client' = IF client.db[c].exists /\ outcome = "ok"
                       THEN AfterStep(p, [proc EXCEPT !.pc = "create_payload_index",
                                                      !.todo = FieldsToIndex(c)],
                                      client.db)
                       ELSE AfterStep(p, [proc EXCEPT !.pc = "create_collection",
                                                      !.call_error = @ \/ client.db[c].exists],
                                      client.db)
    /\ UNCHANGED <<store, lastRecon, lastAdd, ing, rank, chunker, batch>>

\* lines 72-77 and 94-95: create_collection raises when the collection is
\* there by now
CreateCollectionStep(p) ==
    /\ MayStep(p)
    /\ client.procs[p].pc = "create_collection"
    /\ LET proc == client.procs[p]
           c == CollectionOf(proc)
       IN \E outcome \in CallOutcomes :
             client' = IF ~client.db[c].exists /\ outcome = "ok"
                       THEN AfterStep(p, [proc EXCEPT !.pc = "create_payload_index",
                                                      !.todo = FieldsToIndex(c)],
                                      [client.db EXCEPT ![c].exists = TRUE])
                       ELSE AfterStep(p, AfterCreateFailed(proc, client.db[c].exists),
                                      client.db)
    /\ UNCHANGED <<store, lastRecon, lastAdd, ing, rank, chunker, batch>>

\* lines 52-68 and 78-93: create_payload_index for the next field; on an
\* index that is there already the store either accepts the call or rejects
\* it, as it is configured
CreateIndexStep(p) ==
    /\ MayStep(p)
    /\ client.procs[p].pc = "create_payload_index"
    /\ LET proc == client.procs[p]
           c == CollectionOf(proc)
           field == Head(proc.todo)
           there == field \in client.db[c].indexes
       IN \E outcome \in CallOutcomes :
             client' = IF outcome = "ok" /\ ~(there /\ client.index_rejects_existing)
                       THEN AfterStep(p,
                                IF Len(proc.todo) > 1
                                THEN [proc EXCEPT !.todo = Tail(@)]
                                ELSE NextCollection(proc),
                                [client.db EXCEPT ![c].indexes = @ \cup {field}])
                       ELSE AfterStep(p, AfterIndexFailed(proc, there), client.db)
    /\ UNCHANGED <<store, lastRecon, lastAdd, ing, rank, chunker, batch>>

GetCollection == \E p \in {1, 2} : GetCollectionStep(p)

CreateCollection == \E p \in {1, 2} : CreateCollectionStep(p)

CreateIndex == \E p \in {1, 2} : CreateIndexStep(p)

SetupNext == GetCollection \/ CreateCollection \/ CreateIndex

SpecSetup == SetupInit /\ [][SetupNext]_vars /\ WF_vars(SetupNext)

InitializerReturned(p) == client.procs[p].pc = "done" /\ ~client.procs[p].raised

\* no call of either initializer failed for a reason of the store's own
NoCallError == \A p \in {1, 2} : ~client.procs[p].call_error

\* no create_payload_index was rejected because the index was there
NoIndexRejected == \A p \in {1, 2} : ~client.procs[p].lost_race

\* C26: after initializeCollections completes, both collections
\* exist, each has a secondary index on the document ID, and the JD
\* collection also has one on weight, whether each collection existed before
\* the call or not; a second call leaves collections and indexes unchanged.
C26_SetupEnsuresCollections ==
    client.mode = "sequential"
    => /\ InitializerReturned(1) => FullySetUp(client.after_first)
       /\ InitializerReturned(2) => client.db = client.after_first

\* with calls of the store that fail only because the collection asked for
\* is absent, both collections are set up after the first call and the second
\* call changes nothing
SetupEnsuresCollectionsWhenCallsSucceed ==
    (client.mode = "sequential" /\ NoCallError /\ NoIndexRejected)
    => /\ InitializerReturned(1) => FullySetUp(client.after_first)
       /\ InitializerReturned(2) => (client.db = client.after_first /\ FullySetUp(client.db))

\* a first call found the JD collection without its weight index and no CV
\* collection, set both up, and a second call changed nothing
SetUpTwice ==
    /\ client.mode = "sequential" /\ NoCallError /\ NoIndexRejected
    /\ client.before[JD_COLLECTION_NAME] = [exists |-> TRUE, indexes |-> {"original_doc_id"}]
    /\ ~client.before[CV_COLLECTION_NAME].exists
    /\ InitializerReturned(1) /\ InitializerReturned(2)
    /\ FullySetUp(client.db)
    /\ client.db = client.after_first

\* C27: when two initializers run concurrently and a create-collection or
\* create-index call of one fails because the other already created it, that
\* failure is not fatal: initializeCollections does not raise and goes on to
\* set up the remaining collection.
C27_LostRaceNotFatal ==
    client.mode = "concurrent"
    => \A p \in {1, 2} :
          LET proc == client.procs[p]
          IN /\ ~proc.raised
             /\ proc.lost_race
                  => /\ proc.pc # "done" => ENABLED (GetCollectionStep(p) \/ CreateCollectionStep(p)
                                                     \/ CreateIndexStep(p))
                     /\ (proc.pc = "done" /\ NoCallError)
                          => client.db[CV_COLLECTION_NAME].exists

\* C27 witness: the first initializer lost the race for the JD collection,
\* went on to the CV collection and returned with both collections set up
C27_Witness ==
    /\ client.mode = "concurrent" /\ NoCallError
    /\ \A c \in Collections : ~client.before[c].exists
    /\ client.procs[1].lost_race
    /\ InitializerReturned(1)
    /\ client.db[JD_COLLECTION_NAME].exists
    /\ client.db[CV_COLLECTION_NAME] = [exists |-> TRUE, indexes |-> {"original_doc_id"}]

-----------------------------------------------------------------------------
(* Search with the embedding call: search_similar_chunks lines 194-235 with *)
(* get_embedding (src/vector_db/vectordb_client.py)                          *)

\* the similarity the store computes for a query vector: the zero vector has
\* cosine similarity 0 to every point
StoreSimilarity(sim, query_embedding) ==
    IF query_embedding = ZeroVector THEN [qc \in DOMAIN sim |-> 0] ELSE sim

NotSearched == [embedded |-> FALSE, query_embedding |-> ZeroVector, searched |-> FALSE,
                hits |-> <<>>]

\* lines 194-235: what the call computes, with embedded and searched telling
\* whether get_embedding and the store's search were called; a blank query
\* returns before both (lines 194-195), a zero query vector is only logged
\* (lines 198-199)
EmbedAndSearch(st, sim, query_text, api_key, endpoint, top_k, filter_by_doc_ids, searchOk) ==
    LET query_embedding == get_embedding([str |-> TRUE, val |-> query_text],
                                         api_key, endpoint).vec
    IN IF Len(Strip(query_text)) = 0 THEN NotSearched
       ELSE [embedded |-> TRUE, query_embedding |-> query_embedding, searched |-> TRUE,
             hits |-> search_similar_chunks(st, StoreSimilarity(sim, query_embedding),
                                            query_text, CV_COLLECTION_NAME, top_k,
                                            filter_by_doc_ids, searchOk)]

ZeroQueryInit ==
    /\ store = RankedStore
    /\ lastRecon = NoRecon
    /\ lastAdd = NoAdd
    /\ ing = <<>>
    /\ rank = NoRank
    /\ chunker = NoChunkerCall
    /\ batch = NoBatch
    /\ \E query_text \in SearchQueries, api_key \in BOOLEAN, endpoint \in EndpointReplies,
          top_k \in 1..MaxTopK, filter_by_doc_ids \in {NoFilter, DocIdFilter(<<"c1", "c2">>)},
          sim \in SimTables, searchOk \in BOOLEAN :
          client = [pc |-> "called", query_text |-> query_text, api_key |-> api_key,
                    endpoint |-> endpoint, top_k |-> top_k,
                    filter_by_doc_ids |-> filter_by_doc_ids, sim |-> sim,
                    searchOk |-> searchOk, result |-> NotSearched]

SearchSimilarChunks ==
    /\ client.pc = "called"
    /\ client' = [client EXCEPT
                     !.pc = "done",
                     !.result = EmbedAndSearch(store, client.sim, client.query_text,
                                               client.api_key, client.endpoint, client.top_k,
                                               client.filter_by_doc_ids, client.searchOk)]
    /\ UNCHANGED <<store, lastRecon, lastAdd, ing, rank, chunker, batch>>

ZeroQueryNext == SearchSimilarChunks

SpecZeroQuery == ZeroQueryInit /\ [][ZeroQueryNext]_vars /\ WF_vars(ZeroQueryNext)

\* the stored points a search with the call's filter can return
SearchablePoints ==
    IF SearchFilterApplies(client.filter_by_doc_ids)
    THEN {pt \in store[CV_COLLECTION_NAME] :
             pt.original_doc_id \in SeqRange(client.filter_by_doc_ids.ids)}
    ELSE store[CV_COLLECTION_NAME]

\* what get_embedding gives for the query of the call
QueryEmbeddingOf(call) ==
    get_embedding([str |-> TRUE, val |-> call.query_text], call.api_key, call.endpoint).vec

\* the hits are the top_k of the searchable points, each with score 0
ZeroScoredHits ==
    /\ Len(client.result.hits) = Min2(client.top_k, Cardinality(SearchablePoints))
    /\ \A i \in 1..Len(client.result.hits) :
          /\ client.result.hits[i]._score = 0
          /\ \E pt \in SearchablePoints :
                /\ pt.original_doc_id = client.result.hits[i].original_doc_id
                /\ pt.chunk_index = client.result.hits[i].chunk_index

\* C28: search with an empty or all-zero query embedding still executes the
\* nearest-neighbor search against the store and returns its hits; it does
\* not abort or return early.
C28_ZeroEmbeddingStillSearches ==
    (client.pc = "done" /\ QueryEmbeddingOf(client) = ZeroVector)
    => /\ client.result.searched
       /\ client.searchOk => ZeroScoredHits

\* a query that is not blank and whose embedding came back all zero is
\* searched for all the same
NonBlankZeroEmbeddingStillSearches ==
    (client.pc = "done" /\ client.result.embedded
        /\ client.result.query_embedding = ZeroVector)
    => /\ client.result.searched
       /\ client.searchOk => ZeroScoredHits

\* the embedding endpoint timed out, the query vector was all zero, and the
\* search returned top_k hits of the store
ZeroEmbeddingSearched ==
    /\ client.pc = "done"
    /\ client.endpoint.kind = "timeout" /\ client.api_key
    /\ client.result.embedded /\ client.result.query_embedding = ZeroVector
    /\ client.result.searched
    /\ client.top_k > 1
    /\ Len(client.result.hits) = client.top_k

====
